---- MODULE Spec2Model ----
(***************************************************************************)
(* A model of respite: the RESP reader (frame(), value(), request() and    *)
(* the streams built on them), the inline splitter and the writer.         *)
(*                                                                         *)
(* Bytes are integers 0..255.  An async call of the reader is a coroutine: *)
(* its only suspension points are the calls of inner.read_buf (read()).    *)
(* The coroutine is kept as a continuation `k` (the instructions still to  *)
(* run) plus the locals of the functions on its call stack.  `Run` runs it *)
(* up to the next read(); the actions ReadChunk / ReadEof complete that    *)
(* read with some bytes or with 0 (end of input).                          *)
(***************************************************************************)
EXTENDS Integers, Sequences, FiniteSets, TLC

\* ------------------------------------------------------------------ bytes

\* ASCII codes of the characters the model's inputs are written with.
Ord ==
    ("*" :> 42) @@ ("(" :> 40) @@ ("#" :> 35) @@ ("$" :> 36) @@ ("," :> 44) @@
    ("-" :> 45) @@ (":" :> 58) @@ ("%" :> 37) @@ ("_" :> 95) @@ (">" :> 62) @@
    ("~" :> 126) @@ ("+" :> 43) @@ ("=" :> 61) @@ ("!" :> 33) @@ ("|" :> 124) @@
    ("0" :> 48) @@ ("1" :> 49) @@ ("2" :> 50) @@ ("3" :> 51) @@ ("4" :> 52) @@
    ("5" :> 53) @@ ("6" :> 54) @@ ("7" :> 55) @@ ("8" :> 56) @@ ("9" :> 57) @@
    ("\r" :> 13) @@ ("\n" :> 10) @@ (" " :> 32) @@ ("\t" :> 9) @@
    ("'" :> 39) @@ ("\"" :> 34) @@ ("\\" :> 92) @@ ("." :> 46) @@
    ("a" :> 97) @@ ("b" :> 98) @@ ("c" :> 99) @@ ("d" :> 100) @@ ("e" :> 101) @@
    ("f" :> 102) @@ ("i" :> 105) @@ ("n" :> 110) @@ ("r" :> 114) @@
    ("t" :> 116) @@ ("x" :> 120) @@ ("y" :> 121) @@ ("z" :> 122) @@
    ("N" :> 78) @@ ("A" :> 65) @@ ("F" :> 70)

\* The byte string written as a tuple of one-character strings.
B(chars) == [i \in 1..Len(chars) |-> Ord[chars[i]]]

CR == Ord["\r"]
LF == Ord["\n"]
CRLF == <<CR, LF>>

IsDigit(b) == b >= Ord["0"] /\ b <= Ord["9"]

\* A variant of is_ascii_whitespace that counts the vertical tab, as C's
\* isspace does.
is_ascii_whitespace_isspace(b) == b \in {32, 9, 10, 11, 12, 13}

\* u8::is_ascii_whitespace: space, tab, line feed, form feed, carriage return.
IsAsciiWhitespace(b) == b \in {32, 9, 10, 12, 13}

SubSeqFrom(s, i) == SubSeq(s, i, Len(s))

Contains(s, b) == \E i \in 1..Len(s) : s[i] = b

Min(a, b) == IF a < b THEN a ELSE b

RECURSIVE Concat(_)
Concat(ss) == IF ss = <<>> THEN <<>> ELSE Head(ss) \o Concat(Tail(ss))

\* ---------------------------------------------------------------- numbers

\* usize::MAX = 18446744073709551615, as decimal digits: the accumulator of
\* read_size is kept as its decimal numeral so that checked_mul/checked_add
\* overflow exactly where the 64-bit word does.
UsizeMaxDigits == <<1,8,4,4,6,7,4,4,0,7,3,7,0,9,5,5,1,6,1,5>>

\* i64::MAX = 9223372036854775807 (i64::MIN has magnitude one more).
I64MaxDigits == <<9,2,2,3,3,7,2,0,3,6,8,5,4,7,7,5,8,0,7>>

\* Numerals longer than this are never turned into a model integer.
NatDigits == 8

\* More than any count, length or limit the model can reach: stands for every
\* machine integer whose numeral is longer than NatDigits digits.
Huge == 10 ^ NatDigits

\* usize::MAX where the model needs it as a value: the one machine integer
\* beyond NatDigits digits that the writer is handed.
UsizeMax == Huge

RECURSIVE LexGreater(_, _)
LexGreater(a, b) ==
    IF a = <<>> THEN FALSE
    ELSE IF Head(a) # Head(b) THEN Head(a) > Head(b)
    ELSE LexGreater(Tail(a), Tail(b))

\* a > b for numerals without leading zeros.
NumGreater(a, b) ==
    \/ Len(a) > Len(b)
    \/ Len(a) = Len(b) /\ LexGreater(a, b)

\* size * 10 + n on a numeral (a leading zero is dropped).
NumPush(num, n) == IF num = <<0>> THEN <<n>> ELSE Append(num, n)

RECURSIVE NumValue(_)
NumValue(num) ==
    IF num = <<>> THEN 0
    ELSE NumValue(SubSeq(num, 1, Len(num) - 1)) * 10 + num[Len(num)]

ToNat(num) == IF Len(num) > NatDigits THEN Huge ELSE NumValue(num)

RECURSIVE NatNum(_)
NatNum(n) == IF n < 10 THEN <<n>> ELSE Append(NatNum(n \div 10), n % 10)

\* ----------------------------------------------------------------- errors

\* RespError: the kind and, for Unexpected(expected, got) and
\* UnknownType(byte), the bytes it carries.
Err(e, x, y) == [e |-> e, x |-> x, y |-> y]
NoErr == Err("", 0, 0)
E(e) == Err(e, 0, 0)

\* ------------------------------------------------------- frames and values

\* One record shape for RespFrame, RespValue and RespRequest:
\*   t      the variant
\*   n      Array/Attribute/Map/Push/Set: the declared count (frames);
\*          Integer: the i64; Boolean: 1 or 0; Double: the index of the f64
\*   a      Verbatim: the format
\*   b      the payload bytes
\*   items  the children of an aggregate value, in wire order (a map's
\*          entries as key, value, key, value, ...)
Val(t, n, a, b, items) == [t |-> t, n |-> n, a |-> a, b |-> b, items |-> items]
NoVal == Val("", 0, <<>>, <<>>, <<>>)

FrameLen(t, n) == Val(t, n, <<>>, <<>>, <<>>)
FrameBytes(t, b) == Val(t, 0, <<>>, b, <<>>)
FrameNil == Val("Nil", 0, <<>>, <<>>, <<>>)

\* Result<Option<_>, RespError> of frame(), value() and request().
Some(v) == [kind |-> "Some", v |-> v, e |-> NoErr]
None == [kind |-> "None", v |-> NoVal, e |-> NoErr]
Fail(e) == [kind |-> "Err", v |-> NoVal, e |-> e]

\* ------------------------------------------------------- text conversions

Lower(b) == IF b >= 65 /\ b <= 90 THEN b + 32 ELSE b

LowerAll(s) == [i \in 1..Len(s) |-> Lower(s[i])]

RECURSIVE DigitRun(_)
\* The number of leading decimal digits of s.
DigitRun(s) == IF s # <<>> /\ IsDigit(Head(s)) THEN 1 + DigitRun(Tail(s)) ELSE 0

DigitsOf(s) == [i \in 1..Len(s) |-> s[i] - Ord["0"]]

RECURSIVE StripZeros(_)
StripZeros(num) ==
    IF Len(num) > 1 /\ Head(num) = 0 THEN StripZeros(Tail(num)) ELSE num

IsSign(b) == b = Ord["+"] \/ b = Ord["-"]

\* <i64 as FromStr>::from_str: an optional sign, then one or more decimal
\* digits and nothing else; a value outside i64 is an error.
parse_i64(s) ==
    LET neg == s # <<>> /\ Head(s) = Ord["-"]
        body == IF s # <<>> /\ IsSign(Head(s)) THEN Tail(s) ELSE s
        num == StripZeros(DigitsOf(body))
        \* i64::MIN = -(i64::MAX + 1)
        over == NumGreater(num, I64MaxDigits)
                /\ ~(neg /\ ~NumGreater(num, Append(SubSeq(I64MaxDigits, 1, 18), 8)))
    IN  IF body = <<>> \/ DigitRun(body) # Len(body) \/ over
        THEN [ok |-> FALSE, n |-> 0]
        ELSE [ok |-> TRUE, n |-> IF neg THEN 0 - ToNat(num) ELSE ToNat(num)]

RECURSIVE FormatNat(_)
FormatNat(n) ==
    IF n < 10 THEN <<Ord["0"] + n>>
    ELSE Append(FormatNat(n \div 10), Ord["0"] + (n % 10))

\* Display for usize.
FormatUsize(n) ==
    IF n = UsizeMax THEN [i \in 1..Len(UsizeMaxDigits) |-> Ord["0"] + UsizeMaxDigits[i]]
    ELSE FormatNat(n)

\* Display for i64 (the "{}" of write_fmt!).
FormatInt(n) == IF n < 0 THEN <<Ord["-"]>> \o FormatNat(0 - n) ELSE FormatNat(n)

\* f64 values of the model: a finite value is its number of hundredths (an
\* integer below Huge in magnitude); the others are the codes below.
\* (Negative zero and finite values that are no multiple of 1/100 are not
\* in the model's domain: every such parse result is F64Other.)
F64Inf == Huge + 1
F64NegInf == 0 - (Huge + 1)
F64NaN == Huge + 2
F64Other == Huge + 3

RECURSIVE Pow10(_)
Pow10(n) == IF n = 0 THEN 1 ELSE 10 * Pow10(n - 1)

\* <f64 as FromStr>::from_str: an optional sign, then "inf", "infinity" or
\* "nan" in any case, or a decimal number
\*     digits [ "." digits ] [ ("e" | "E") [sign] digits ]
\* with at least one digit before the exponent.  The operators below read
\* the number from its end to its start; parse_f64 is the entry.

\* The value mant * 10^scale hundredths, when the model's domain has it.
parse_f64_value(neg, mant, scale) ==
    LET m == ToNat(mant)
        inDomain ==
            /\ Len(mant) <= 4 /\ scale <= 3 /\ scale >= -4
            /\ (scale < 0 => m % Pow10(0 - scale) = 0)
            /\ ~(neg /\ m = 0)
        h == IF scale >= 0 THEN m * Pow10(scale) ELSE m \div Pow10(0 - scale)
    IN  IF ~inDomain THEN [ok |-> TRUE, n |-> F64Other]
        ELSE [ok |-> TRUE, n |-> IF neg THEN 0 - h ELSE h]

\* The exponent's digits: the first n3 bytes of r5, which must end the text.
parse_f64_exp_digits(neg, mant, n2, hasExp, eneg, r5, n3) ==
    IF (hasExp /\ n3 < 1) \/ SubSeqFrom(r5, n3 + 1) # <<>> THEN [ok |-> FALSE, n |-> 0]
    ELSE parse_f64_value(neg, mant,
             (IF eneg THEN 0 - ToNat(StripZeros(DigitsOf(SubSeq(r5, 1, n3))))
              ELSE ToNat(StripZeros(DigitsOf(SubSeq(r5, 1, n3))))) - n2 + 2)

\* The exponent's sign: r4 is the text after the "e" (or what is left when
\* there is no exponent).
parse_f64_exp_sign(neg, mant, n2, hasExp, r4) ==
    LET eneg == r4 # <<>> /\ Head(r4) = Ord["-"]
        r5 == IF hasExp /\ r4 # <<>> /\ IsSign(Head(r4)) THEN Tail(r4) ELSE r4
    IN  parse_f64_exp_digits(neg, mant, n2, hasExp, eneg, r5,
                             IF hasExp THEN DigitRun(r5) ELSE 0)

\* The "e" after the mantissa: r3 is the text after the mantissa.
parse_f64_exp(neg, mant, n2, r3) ==
    LET hasExp == r3 # <<>> /\ Lower(Head(r3)) = Ord["e"]
    IN  parse_f64_exp_sign(neg, mant, n2, hasExp, IF hasExp THEN Tail(r3) ELSE r3)

\* The fraction's digits: the first n2 bytes of r2; `int` are the digits
\* before the point.
parse_f64_frac_digits(neg, int, r2, n2) ==
    IF Len(int) + n2 < 1 THEN [ok |-> FALSE, n |-> 0]
    ELSE parse_f64_exp(neg, StripZeros(DigitsOf(int \o SubSeq(r2, 1, n2))), n2,
                       SubSeqFrom(r2, n2 + 1))

\* The point: r1 is the text after the digits `int`.
parse_f64_point(neg, int, r1) ==
    LET dot == r1 # <<>> /\ Head(r1) = Ord["."]
        r2 == IF dot THEN Tail(r1) ELSE r1
    IN  parse_f64_frac_digits(neg, int, r2, IF dot THEN DigitRun(r2) ELSE 0)

\* The text after the sign.
parse_f64_unsigned(neg, body) ==
    IF LowerAll(body) = B(<<"i","n","f">>)
       \/ LowerAll(body) = B(<<"i","n","f","i","n","i","t","y">>)
    THEN [ok |-> TRUE, n |-> IF neg THEN F64NegInf ELSE F64Inf]
    ELSE IF LowerAll(body) = B(<<"n","a","n">>) THEN [ok |-> TRUE, n |-> F64NaN]
    ELSE parse_f64_point(neg, SubSeq(body, 1, DigitRun(body)),
                         SubSeqFrom(body, DigitRun(body) + 1))

parse_f64(s) ==
    parse_f64_unsigned(s # <<>> /\ Head(s) = Ord["-"],
                       IF s # <<>> /\ IsSign(Head(s)) THEN Tail(s) ELSE s)

\* Display for f64: never an exponent; "NaN", "inf", "-inf"; the integer
\* part, then the fraction without trailing zeros when there is one.
FormatF64(d) ==
    LET a == IF d < 0 THEN 0 - d ELSE d
        frac == a % 100
        fracText == IF frac = 0 THEN <<>>
                    ELSE IF frac % 10 = 0 THEN <<Ord["."], Ord["0"] + (frac \div 10)>>
                    ELSE <<Ord["."], Ord["0"] + (frac \div 10), Ord["0"] + (frac % 10)>>
    IN  IF d = F64NaN THEN B(<<"N","a","N">>)
        ELSE IF d = F64Inf THEN B(<<"i","n","f">>)
        ELSE IF d = F64NegInf THEN B(<<"-","i","n","f">>)
        ELSE (IF d < 0 THEN <<Ord["-"]>> ELSE <<>>) \o FormatNat(a \div 100) \o fracText

\* --------------------------------------------------------------- splitter

HexValue(b) ==
    IF IsDigit(b) THEN b - Ord["0"]
    ELSE IF Lower(b) >= Ord["a"] /\ Lower(b) <= Ord["f"] THEN Lower(b) - Ord["a"] + 10
    ELSE -1

\* u8::from_str_radix(<the two bytes a, b>, 16) after str::from_utf8: the
\* digits may follow one leading "+"; -1 stands for Err/None.
from_str_radix_16(a, b) ==
    IF a >= 128 \/ b >= 128 THEN -1
    ELSE IF a = Ord["+"] THEN HexValue(b)
    ELSE IF HexValue(a) < 0 \/ HexValue(b) < 0 THEN -1
    ELSE 16 * HexValue(a) + HexValue(b)

\* The byte a backslash escape denotes inside double quotes.
Escape(b) ==
    IF b = Ord["a"] THEN 7
    ELSE IF b = Ord["b"] THEN 8
    ELSE IF b = Ord["n"] THEN LF
    ELSE IF b = Ord["r"] THEN CR
    ELSE IF b = Ord["t"] THEN 9
    ELSE b

Quote == Ord["'"]
DQuote == Ord["\""]
Backslash == Ord["\\"]

\* What a call of split leaves behind: its return value, self.arguments
\* and self.buffer.
SplitResult(ok, arguments, buffer) ==
    [ok |-> ok, arguments |-> arguments, buffer |-> buffer]

\* A variant of invalid!() that returns false and leaves the queue and the
\* buffer as they are.
invalid_keeps(buf, arguments) == SplitResult(FALSE, arguments, buf)

\* invalid!(): clears self.arguments and self.buffer and returns false.
invalid(buf, arguments) == SplitResult(FALSE, <<>>, <<>>)

\* A variant of escapes_quote for which single quotes hold no escape.
escapes_nothing(input) == FALSE

\* The rest of the line begins with the one escape of single quotes.
escapes_quote(input) == Len(input) >= 2 /\ input[1] = Backslash /\ input[2] = Quote

RECURSIVE SplitLoop(_, _, _, _)
\* The loop of Splitter::split: `state` is the local State, `input` the rest
\* of the line, `buf` self.buffer (the token being built) and `arguments`
\* self.arguments.
SplitLoop(state, input, buf, arguments) ==
    LET n == Len(input)
        rest1 == Tail(input)
        rest2 == SubSeqFrom(input, 3)
    IN
    CASE state = "Trim" ->
           IF n = 0 THEN SplitResult(TRUE, arguments, buf)
           ELSE IF input[1] = Quote THEN SplitLoop("SingleQuotes", rest1, buf, arguments)
           ELSE IF input[1] = DQuote THEN SplitLoop("DoubleQuotes", rest1, buf, arguments)
           ELSE IF IsAsciiWhitespace(input[1]) THEN SplitLoop("Trim", rest1, buf, arguments)
           ELSE SplitLoop("NoQuotes", input, buf, arguments)
      [] state = "NoQuotes" ->
           IF n = 0 THEN SplitResult(TRUE, Append(arguments, buf), <<>>)
           ELSE IF IsAsciiWhitespace(input[1])
           THEN SplitLoop("Trim", rest1, <<>>, Append(arguments, buf))
           ELSE SplitLoop("NoQuotes", rest1, Append(buf, input[1]), arguments)
      [] state = "SingleQuotes" ->
           IF n = 0 THEN invalid(buf, arguments)
           ELSE IF input[1] = Quote /\ n >= 2 /\ ~IsAsciiWhitespace(input[2])
           THEN invalid(buf, arguments)
           ELSE IF input[1] = Quote
           THEN SplitLoop("Trim", rest1, <<>>, Append(arguments, buf))
           ELSE IF escapes_quote(input)
           THEN SplitLoop("SingleQuotes", rest2, Append(buf, Quote), arguments)
           ELSE SplitLoop("SingleQuotes", rest1, Append(buf, input[1]), arguments)
      [] state = "DoubleQuotes" ->
           IF n = 0 THEN invalid(buf, arguments)
           ELSE IF input[1] = DQuote /\ n >= 2 /\ ~IsAsciiWhitespace(input[2])
           THEN invalid(buf, arguments)
           ELSE IF input[1] = DQuote
           THEN SplitLoop("Trim", rest1, <<>>, Append(arguments, buf))
           ELSE IF input[1] = Backslash /\ n >= 4 /\ input[2] = Ord["x"]
           THEN LET byte == from_str_radix_16(input[3], input[4])
                IN  SplitLoop("DoubleQuotes", SubSeqFrom(input, 5),
                              IF byte >= 0 THEN Append(buf, byte)
                              ELSE buf \o <<Ord["x"], input[3], input[4]>>,
                              arguments)
           ELSE IF input[1] = Backslash /\ n >= 2
           THEN SplitLoop("DoubleQuotes", rest2, Append(buf, Escape(input[2])), arguments)
           ELSE SplitLoop("DoubleQuotes", rest1, Append(buf, input[1]), arguments)

\* Splitter::split(input) on a splitter whose queue holds `arguments`.
SplitterSplit(arguments, input) == SplitLoop("Trim", input, <<>>, arguments)

\* What the free function split leaves behind: its return value and the
\* queue it was handed; "panic" stands for an index out of range.
SplitReturn(ok, arguments) == [ok |-> ok, arguments |-> arguments]

\* push!(c) of the free function: line[to] = c.
Put(line, to, c) == [line EXCEPT ![to + 1] = c]

RECURSIVE SplitFree(_, _, _, _, _)
\* The loop of the free function split (split.rs), which works in place:
\* `line` is what is left of the BytesMut, `from` and `to` are the indices
\* the code reads at and writes at, counted from 0.
SplitFree(state, line, from, to, arguments) ==
    LET n == Len(line) - from
        b == line[from + 1]
        arg == Append(arguments, SubSeq(line, 1, to))
    IN
    IF n < 0 \/ to > Len(line) THEN SplitReturn("panic", arguments)
    ELSE
    CASE state = "Trim" ->
           IF n = 0 THEN SplitReturn(TRUE, arguments)
           ELSE IF b = Quote THEN SplitFree("SingleQuotes", Tail(line), from, to, arguments)
           ELSE IF b = DQuote THEN SplitFree("DoubleQuotes", Tail(line), from, to, arguments)
           ELSE IF IsAsciiWhitespace(b) THEN SplitFree("Trim", Tail(line), from, to, arguments)
           ELSE SplitFree("NoQuotes", line, from, to, arguments)
      [] state = "NoQuotes" ->
           IF n = 0 THEN SplitReturn(TRUE, arg)
           ELSE IF IsAsciiWhitespace(b)
           THEN SplitFree("Trim", SubSeqFrom(line, to + 1), 0, 0, arg)
           ELSE SplitFree("NoQuotes", line, from + 1, to + 1, arguments)
      [] state = "SingleQuotes" ->
           IF n = 0 THEN SplitReturn(FALSE, <<>>)
           ELSE IF b = Quote /\ n >= 2 /\ ~IsAsciiWhitespace(line[from + 2])
           THEN SplitReturn(FALSE, <<>>)
           ELSE IF b = Quote
           THEN SplitFree("Trim", SubSeqFrom(line, to + 2), from - to, 0, arg)
           ELSE IF b = Backslash /\ n >= 2 /\ line[from + 2] = Quote
           THEN SplitFree("SingleQuotes", Put(line, to, Quote), from + 2, to + 1, arguments)
           ELSE SplitFree("SingleQuotes", Put(line, to, b), from + 1, to + 1, arguments)
      [] state = "DoubleQuotes" ->
           IF n = 0 THEN SplitReturn(FALSE, <<>>)
           ELSE IF b = DQuote /\ n >= 2 /\ ~IsAsciiWhitespace(line[from + 2])
           THEN SplitReturn(FALSE, <<>>)
           ELSE IF b = DQuote
           THEN SplitFree("Trim", SubSeqFrom(line, to + 2), from - to, 0, arg)
           ELSE IF b = Backslash /\ n >= 4 /\ line[from + 2] = Ord["x"]
           THEN IF from_str_radix_16(line[from + 3], line[from + 4]) >= 0
                THEN SplitFree("DoubleQuotes",
                               Put(line, to, from_str_radix_16(line[from + 3], line[from + 4])),
                               from + 4, to + 1, arguments)
                ELSE SplitFree("DoubleQuotes",
                               Put(Put(Put(line, to, Ord["x"]), to + 1, line[from + 3]),
                                   to + 2, line[from + 4]),
                               from + 4, to + 3, arguments)
           ELSE IF b = Backslash /\ n >= 2
           THEN SplitFree("DoubleQuotes", Put(line, to, Escape(line[from + 2])),
                          from + 2, to + 1, arguments)
           ELSE SplitFree("DoubleQuotes", Put(line, to, b), from + 1, to + 1, arguments)

\* split(line, arguments) of split.rs on an empty queue.
SplitFreeCall(line) == SplitFree("Trim", line, 0, 0, <<>>)

\* ------------------------------------------------- the reader's coroutine

\* One instruction of a continuation: the operation, and for Require the
\* bytes still expected, for the others the frame kind they work for.
Ins(op, bs, tag) == [op |-> op, bs |-> bs, tag |-> tag]
I(op) == Ins(op, <<>>, "")
Require(bs) == Ins("Require", bs, "")
Ret(tag) == Ins("Ret", <<>>, tag)

\* read_size: the guard against an empty field, then the digit loop.
read_size == <<I("SizeGuard"), I("SizeLoop")>>

\* read_line = require_line: `from` starts at 0, then the scan loop.
read_line == <<I("LineStart"), I("LineLoop")>>

\* The bodies of the fifteen frame readers, after the marker was required.
read_array_nil == <<Require(B(<<"-", "1", "\r", "\n">>)), Ret("Nil")>>
read_array_size == read_size \o <<Ret("Array")>>
read_blob_string_nil == <<Require(B(<<"-", "1", "\r", "\n">>)), Ret("Nil")>>
\* A variant of read_blob_string_size that checks the limit after the read.
read_blob_string_size_late_check ==
    read_size \o <<I("ReadExact"), I("CheckBlob"), Require(CRLF), Ret("BlobString")>>

read_blob_string_size ==
    read_size \o <<I("CheckBlob"), I("ReadExact"), Require(CRLF), Ret("BlobString")>>
read_blob_error ==
    <<Require(B(<<"!">>))>> \o read_size
    \o <<I("CheckBlob"), I("ReadExact"), Require(CRLF), Ret("BlobError")>>
\* A variant of read_verbatim that checks the least length first.
read_verbatim_length_first ==
    <<Require(B(<<"=">>))>> \o read_size
    \o <<I("CheckVerbatim"), I("CheckBlob"), I("ReadExact"), I("VerbatimColon"),
         Require(CRLF), Ret("Verbatim")>>

read_verbatim ==
    <<Require(B(<<"=">>))>> \o read_size
    \o <<I("CheckBlob"), I("CheckVerbatim"), I("ReadExact"), I("VerbatimColon"),
         Require(CRLF), Ret("Verbatim")>>
read_array == <<Require(B(<<"*">>)), Ins("PeekNil", <<>>, "Array")>>
read_blob_string == <<Require(B(<<"$">>)), Ins("PeekNil", <<>>, "BlobString")>>
read_bignum == <<Require(B(<<"(">>))>> \o read_line \o <<Ret("Bignum")>>
read_boolean == <<Require(B(<<"#">>)), I("PopBool"), Require(CRLF), Ret("Boolean")>>
read_double == <<Require(B(<<",">>))>> \o read_line \o <<Ret("Double")>>
read_error == <<Require(B(<<"-">>))>> \o read_line \o <<Ret("SimpleError")>>
read_integer == <<Require(B(<<":">>))>> \o read_line \o <<Ret("Integer")>>
read_map == <<Require(B(<<"%">>))>> \o read_size \o <<Ret("Map")>>
read_nil == <<Require(B(<<"_", "\r", "\n">>)), Ret("Nil")>>
read_push == <<Require(B(<<">">>))>> \o read_size \o <<Ret("Push")>>
read_set == <<Require(B(<<"~">>))>> \o read_size \o <<Ret("Set")>>
read_simple_string == <<Require(B(<<"+">>))>> \o read_line \o <<Ret("SimpleString")>>
read_attribute == <<Require(B(<<"|">>))>> \o read_size \o <<Ret("Attribute")>>

\* The byte -> reader mapping of frame(); <<>> for an unmapped byte.
FrameReader(byte) ==
    CASE byte = Ord["*"] -> read_array
      [] byte = Ord["("] -> read_bignum
      [] byte = Ord["#"] -> read_boolean
      [] byte = Ord["$"] -> read_blob_string
      [] byte = Ord[","] -> read_double
      [] byte = Ord["-"] -> read_error
      [] byte = Ord[":"] -> read_integer
      [] byte = Ord["%"] -> read_map
      [] byte = Ord["_"] -> read_nil
      [] byte = Ord[">"] -> read_push
      [] byte = Ord["~"] -> read_set
      [] byte = Ord["+"] -> read_simple_string
      [] byte = Ord["="] -> read_verbatim
      [] byte = Ord["!"] -> read_blob_error
      [] byte = Ord["|"] -> read_attribute
      [] OTHER -> <<>>

\* The body of request()'s Args(c) arm, c > 0.
request_args ==
    <<Require(B(<<"$">>))>> \o read_size
    \o <<I("CheckBlob"), I("ReadExact"), Require(CRLF), I("ArgsDone")>>

\* The body of request()'s Init arm when the next byte is '*'.
request_init_array ==
    <<Require(B(<<"*">>))>> \o read_size \o <<I("SetArgs"), I("ReqLoop")>>

\* The body of request()'s Init arm for any other byte.
request_init_inline == read_line \o <<I("Split")>>

\* RequestState
Args(n) == [s |-> "Args", n |-> n]
StInit == [s |-> "Init", n |-> 0]
StSplitting == [s |-> "Splitting", n |-> 0]
StDone == [s |-> "Done", n |-> 0]

\* RespRequest items
Argument(b) == Val("Argument", 0, <<>>, b, <<>>)
InvalidArgument == Val("InvalidArgument", 0, <<>>, <<>>, <<>>)
End == Val("End", 0, <<>>, <<>>, <<>>)

\* RespConfig, as the two limits a step reads.
Config(blob, inline) == [blob_limit |-> blob, inline_limit |-> inline]

\* A machine `m` is the reader's fields (buffer, request_state, arguments)
\* together with the coroutine of the call in flight:
\*   fn     the entry point: "frame", "value" or "request"
\*   k      the continuation
\*   size   read_size's accumulator (a numeral), then the size it returned
\*   from   require_line's `from`
\*   val    the bytes read_line / read_exact returned
\*   stack  value(): the aggregates being built, innermost last
\*   st     "run", "wait" (suspended in read()), "done" or "idle"
\*   eof    the read() the coroutine was suspended in has returned 0
\*   res    the call's result, once st = "done"
\* and, for the properties only: `pulled` (the bytes pulled from the source
\* so far), `start` (`pulled` when the call began), `clean` (nothing
\* consumed since the call began or since it last
\* stored request_state), `site` (which check failed), `hdr_len` /
\* `hdr_pulled` (the buffer length and `pulled` when read_size last returned).

Panic == [kind |-> "Panic", v |-> NoVal, e |-> NoErr]

Finish(m, r) == [m EXCEPT !.st = "done", !.res = r, !.k = <<>>, !.eof = FALSE]

\* Replace the instruction at the head of the continuation by `ks`.
Push(m, ks) == [m EXCEPT !.k = ks \o Tail(@)]

Skip(m) == [m EXCEPT !.k = Tail(@)]

\* buffer.advance(n) / get_u8 / split_to(n): the first n bytes leave the buffer.
Consume(m, n) ==
    [m EXCEPT !.buffer = SubSeqFrom(@, n + 1), !.clean = FALSE, !.consumed = @ + n]

\* read_some().await?: suspended in read(); EndOfInput once it returned 0.
ReadSome(m) ==
    IF m.eof THEN Finish(m, Fail(E("EndOfInput"))) ELSE [m EXCEPT !.st = "wait"]

IsAggregate(t) == t \in {"Array", "Attribute", "Map", "Push", "Set"}
IsPairs(t) == t \in {"Attribute", "Map"}

\* A variant of IsPrimitive that takes a Boolean for a primitive as well.
IsPrimitiveOrBoolean(v) == v.t \in {"Integer", "Nil", "String", "Boolean"}

\* TryFrom<RespValue> for RespPrimitive succeeds.
IsPrimitive(v) == v.t \in {"Integer", "Nil", "String"}

\* The leaf value() makes of a scalar frame.
ValueOfFrame(f) ==
    IF f.t \in {"BlobError", "SimpleError"} THEN [f EXCEPT !.t = "Error"]
    ELSE IF f.t \in {"BlobString", "SimpleString"} THEN [f EXCEPT !.t = "String"]
    ELSE f

Builder(t, left) == [t |-> t, left |-> left, items |-> <<>>]

\* map.insert(key, value).is_some(): an entry with this key is already there.
MapHasKey(items, key) == \E j \in 1..Len(items) : j % 2 = 1 /\ items[j] = key

\* !set.insert(value)
SetHas(items, v) == \E j \in 1..Len(items) : items[j] = v

\* The frame a reader returns, from the locals (an error for a Double or
\* Integer line that does not parse).
FrameOf(m, tag) ==
    CASE tag = "Nil" -> Some(FrameNil)
      [] IsAggregate(tag) \/ tag = "Boolean" -> Some(FrameLen(tag, ToNat(m.size)))
      [] tag = "Verbatim" ->
           Some(Val("Verbatim", 0, SubSeq(m.val, 1, 3), SubSeqFrom(m.val, 5), <<>>))
      [] tag = "Double" ->
           LET r == parse_f64(m.val)
           IN  IF r.ok THEN Some(FrameLen("Double", r.n)) ELSE Fail(E("InvalidDouble"))
      [] tag = "Integer" ->
           LET r == parse_i64(m.val)
           IN  IF r.ok THEN Some(FrameLen("Integer", r.n)) ELSE Fail(E("InvalidInteger"))
      [] OTHER -> Some(FrameBytes(tag, m.val))

RECURSIVE DeliverOverwrites(_, _)
\* A variant of Deliver that lets a later entry of a map replace an earlier
\* one with the same key without a word.
DeliverOverwrites(m, v) ==
    IF m.stack = <<>> THEN Finish(m, Some(v))
    ELSE
    LET d == Len(m.stack)
        top == m.stack[d]
        isKey == IsPairs(top.t) /\ Len(top.items) % 2 = 0
        items == Append(top.items, v)
    IN  IF (top.t = "Set" \/ isKey) /\ ~IsPrimitive(v)
        THEN Finish(m, Fail(E("RespPrimitive")))
        ELSE IF top.t = "Set" /\ SetHas(top.items, v)
        THEN Finish(m, Fail(E("InvalidSet")))
        ELSE IF top.left = 1
        THEN DeliverOverwrites([m EXCEPT !.stack = SubSeq(@, 1, d - 1)],
                               Val(top.t, 0, <<>>, <<>>, items))
        ELSE [m EXCEPT !.stack[d].items = items, !.stack[d].left = @ - 1,
                       !.k = <<I("PeekFrame")>>]

RECURSIVE Deliver(_, _)
\* value(): the value `v` is complete.  With no aggregate being built it is
\* the call's result; otherwise it is the next child of the innermost one
\* (a key or a value of a map, a member of a set), which then either waits
\* for its next child or is complete itself.
Deliver(m, v) ==
    IF m.stack = <<>> THEN Finish(m, Some(v))
    ELSE
    LET d == Len(m.stack)
        top == m.stack[d]
        isKey == IsPairs(top.t) /\ Len(top.items) % 2 = 0
        items == Append(top.items, v)
    IN  IF (top.t = "Set" \/ isKey) /\ ~IsPrimitive(v)
        THEN Finish(m, Fail(E("RespPrimitive")))
        ELSE IF IsPairs(top.t) /\ ~isKey
                /\ MapHasKey(SubSeq(top.items, 1, Len(top.items) - 1),
                             top.items[Len(top.items)])
        THEN Finish(m, Fail(E("InvalidMap")))
        ELSE IF top.t = "Set" /\ SetHas(top.items, v)
        THEN Finish(m, Fail(E("InvalidSet")))
        ELSE IF top.left = 1
        THEN Deliver([m EXCEPT !.stack = SubSeq(@, 1, d - 1)],
                     Val(top.t, 0, <<>>, <<>>, items))
        ELSE [m EXCEPT !.stack[d].items = items, !.stack[d].left = @ - 1,
                       !.k = <<I("PeekFrame")>>]

\* A variant of GotFrame that asks for as many children of a map as of an
\* array: one for each entry.
GotFrameOneChildEach(m, f) ==
    IF m.fn = "frame" THEN Finish(m, Some(f))
    ELSE IF IsAggregate(f.t) /\ f.n > 0
    THEN [m EXCEPT !.stack = Append(@, Builder(f.t, f.n)), !.k = <<I("PeekFrame")>>]
    ELSE IF IsAggregate(f.t) THEN Deliver(m, Val(f.t, 0, <<>>, <<>>, <<>>))
    ELSE Deliver(m, ValueOfFrame(f))

\* frame() has returned `f` to its caller: to the user, or to value().
GotFrame(m, f) ==
    IF m.fn = "frame" THEN Finish(m, Some(f))
    ELSE IF IsAggregate(f.t) /\ f.n > 0
    THEN [m EXCEPT !.stack = Append(@, Builder(f.t, IF IsPairs(f.t) THEN 2 * f.n ELSE f.n)),
                   !.k = <<I("PeekFrame")>>]
    ELSE IF IsAggregate(f.t) THEN Deliver(m, Val(f.t, 0, <<>>, <<>>, <<>>))
    ELSE Deliver(m, ValueOfFrame(f))

\* The first index i in lo..hi with buffer[i] = CR, or 0.
PositionCR(buffer, lo, hi) ==
    LET hits == {i \in lo..hi : buffer[i] = CR}
    IN  IF hits = {} THEN 0 ELSE CHOOSE i \in hits : \A j \in hits : i <= j

\* require(): pop() one expected byte and compare.
ExecRequire(m) ==
    LET ins == Head(m.k)
    IN  IF ins.bs = <<>> THEN Skip(m)
        ELSE IF m.buffer = <<>> THEN ReadSome(m)
        ELSE LET got == Head(m.buffer)
                 m2 == Consume(m, 1)
             IN  IF got # Head(ins.bs)
                 THEN Finish(m2, Fail(Err("Unexpected", Head(ins.bs), got)))
                 ELSE [m2 EXCEPT !.k[1].bs = Tail(@)]

\* A variant of ExecDispatch that pops the byte it cannot dispatch on.
ExecDispatchPops(m, reader) ==
    IF reader = <<>> THEN Finish(Consume(m, 1), Fail(Err("UnknownType", Head(m.buffer), 0)))
    ELSE Push(m, reader)

\* frame()'s match on the byte peeked: `reader` is the reader the byte is
\* mapped to, <<>> for none.
ExecDispatch(m, reader) ==
    IF reader = <<>> THEN Finish(m, Fail(Err("UnknownType", Head(m.buffer), 0)))
    ELSE Push(m, reader)

\* A variant of ExecPeekFrame for which an exhausted source is always an
\* error, also between two frames.
ExecPeekFrameNeverNone(m) ==
    IF m.buffer = <<>>
    THEN IF ~m.eof THEN [m EXCEPT !.st = "wait"]
         ELSE Finish(m, Fail(E("EndOfInput")))
    ELSE ExecDispatch(m, FrameReader(Head(m.buffer)))

\* frame(): peek() and dispatch on the marker.  value() asks for a child
\* through require_value(), which turns "no frame" into EndOfInput.
ExecPeekFrame(m) ==
    IF m.buffer = <<>>
    THEN IF ~m.eof THEN [m EXCEPT !.st = "wait"]
         ELSE IF m.stack # <<>> THEN Finish(m, Fail(E("EndOfInput")))
         ELSE Finish(m, None)
    ELSE ExecDispatch(m, FrameReader(Head(m.buffer)))

\* A variant of ExecPeekNil that knows no nil sentinel: it always reads a
\* size.
ExecPeekNilReadsSize(m) ==
    LET tag == Head(m.k).tag
        size == IF tag = "Array" THEN read_array_size ELSE read_blob_string_size
    IN  IF m.buffer = <<>>
        THEN IF m.eof THEN Push([m EXCEPT !.eof = FALSE], size)
             ELSE [m EXCEPT !.st = "wait"]
        ELSE Push(m, size)

\* read_array / read_blob_string: peek() for the '-' of the nil sentinel.
ExecPeekNil(m) ==
    LET tag == Head(m.k).tag
        size == IF tag = "Array" THEN read_array_size ELSE read_blob_string_size
        nil == IF tag = "Array" THEN read_array_nil ELSE read_blob_string_nil
    IN  IF m.buffer = <<>>
        THEN IF m.eof THEN Push([m EXCEPT !.eof = FALSE], size)
             ELSE [m EXCEPT !.st = "wait"]
        ELSE IF Head(m.buffer) = Ord["-"] THEN Push(m, nil)
        ELSE Push(m, size)

\* A variant of ExecSizeGuard without the guard: an empty field reads as 0.
ExecSizeGuardAbsent(m) ==
    IF m.buffer = <<>>
    THEN IF m.eof THEN Skip([m EXCEPT !.eof = FALSE, !.size = <<0>>])
         ELSE [m EXCEPT !.st = "wait"]
    ELSE Skip([m EXCEPT !.size = <<0>>])

\* read_size, before its loop: peek() == Some('\r') is an empty field.
ExecSizeGuard(m) ==
    IF m.buffer = <<>>
    THEN IF m.eof THEN Skip([m EXCEPT !.eof = FALSE, !.size = <<0>>])
         ELSE [m EXCEPT !.st = "wait"]
    ELSE IF Head(m.buffer) = CR THEN Finish(m, Fail(E("InvalidBlobLength")))
    ELSE Skip([m EXCEPT !.size = <<0>>])

\* read_size's loop: pop() a byte; CR ends the field (LF must follow), a
\* digit goes into the accumulator with checked_mul and checked_add.
ExecSizeLoop(m) ==
    IF m.buffer = <<>> THEN ReadSome(m)
    ELSE LET b == Head(m.buffer)
             m2 == Consume(m, 1)
             acc == NumPush(m.size, b - Ord["0"])
         IN  IF b = CR THEN Push(m2, <<Require(<<LF>>), I("SizeDone")>>)
             ELSE IF ~IsDigit(b) THEN Finish(m2, Fail(E("InvalidBlobLength")))
             ELSE IF NumGreater(acc, UsizeMaxDigits)
             THEN Finish(m2, Fail(E("InvalidBlobLength")))
             ELSE [m2 EXCEPT !.size = acc]

\* size > self.config.blob_limit()
\* A variant of ExecCheckBlob that holds a payload to the inline limit.
ExecCheckBlobInline(m, cfg) ==
    IF ToNat(m.size) > cfg.inline_limit
    THEN Finish([m EXCEPT !.site = "blob_limit"], Fail(E("InvalidBlobLength")))
    ELSE Skip(m)

ExecCheckBlob(m, cfg) ==
    IF ToNat(m.size) > cfg.blob_limit
    THEN Finish([m EXCEPT !.site = "blob_limit"], Fail(E("InvalidBlobLength")))
    ELSE Skip(m)

\* A variant of ExecReadExact that starts over with each read, dropping
\* the part of the payload it already had.
ExecReadExactRestarts(m) ==
    LET len == ToNat(m.size)
    IN  IF m.eof THEN ReadSome(m)
        ELSE IF Len(m.buffer) < len THEN ReadSome([m EXCEPT !.buffer = <<>>])
        ELSE Skip([Consume(m, len) EXCEPT !.val = SubSeq(m.buffer, 1, len)])

\* read_exact(size): read_some() until the buffer holds `size` bytes.
ExecReadExact(m) ==
    LET len == ToNat(m.size)
    IN  IF m.eof THEN ReadSome(m)
        ELSE IF Len(m.buffer) < len THEN ReadSome(m)
        ELSE Skip([Consume(m, len) EXCEPT !.val = SubSeq(m.buffer, 1, len)])

\* A variant of ExecLineLoop that resumes the scan one byte too far.
ExecLineLoopSkipsByte(m, cfg) ==
    LET to == Min(cfg.inline_limit, Len(m.buffer))
        at == PositionCR(m.buffer, IF m.from = 0 THEN 1 ELSE m.from + 2, to)
    IN  IF m.eof THEN ReadSome(m)
        ELSE IF m.from > to THEN Finish(m, Panic)
        ELSE IF at > 0
        THEN Push([Consume(m, at - 1) EXCEPT !.val = SubSeq(m.buffer, 1, at - 1)],
                  <<Require(CRLF)>>)
        ELSE IF Len(m.buffer) > cfg.inline_limit
        THEN Finish(m, Fail(E("TooBigInline")))
        ELSE ReadSome([m EXCEPT !.from = Len(m.buffer)])

\* A variant of ExecLineLoop that looks for the CR in all of the buffer.
ExecLineLoopAnywhere(m, cfg) ==
    LET at == PositionCR(m.buffer, m.from + 1, Len(m.buffer))
    IN  IF m.eof THEN ReadSome(m)
        ELSE IF at > 0
        THEN Push([Consume(m, at - 1) EXCEPT !.val = SubSeq(m.buffer, 1, at - 1)],
                  <<Require(CRLF)>>)
        ELSE IF Len(m.buffer) > cfg.inline_limit
        THEN Finish(m, Fail(E("TooBigInline")))
        ELSE ReadSome([m EXCEPT !.from = Len(m.buffer)])

\* One turn of require_line's loop.  buffer[from..to] with from > to panics.
ExecLineLoop(m, cfg) ==
    LET to == Min(cfg.inline_limit, Len(m.buffer))
        at == PositionCR(m.buffer, m.from + 1, to)
    IN  IF m.eof THEN ReadSome(m)
        ELSE IF m.from > to THEN Finish(m, Panic)
        ELSE IF at > 0
        THEN Push([Consume(m, at - 1) EXCEPT !.val = SubSeq(m.buffer, 1, at - 1)],
                  <<Require(CRLF)>>)
        ELSE IF Len(m.buffer) > cfg.inline_limit
        THEN Finish(m, Fail(E("TooBigInline")))
        ELSE ReadSome([m EXCEPT !.from = Len(m.buffer)])

\* read_boolean: pop() the 't' or 'f'.
ExecPopBool(m) ==
    IF m.buffer = <<>> THEN ReadSome(m)
    ELSE LET b == Head(m.buffer)
             m2 == Consume(m, 1)
         IN  IF b = Ord["t"] THEN Skip([m2 EXCEPT !.size = <<1>>])
             ELSE IF b = Ord["f"] THEN Skip([m2 EXCEPT !.size = <<0>>])
             ELSE Finish(m2, Fail(E("InvalidBoolean")))

\* The end of a frame reader.
ExecRet(m) ==
    LET r == FrameOf(m, Head(m.k).tag)
    IN  IF r.kind = "Some" THEN GotFrame([m EXCEPT !.k = <<>>], r.v) ELSE Finish(m, r)

\* request()'s loop comes round: the count of the turns of this call, which
\* the code does not keep.
Turn(m) == [m EXCEPT !.turns = @ + 1]

\* A variant of ExecReqLoop whose Args(0) arm goes on with the next request
\* in place of returning End.
ExecReqLoopSkipsEnd(m) ==
    LET rs == m.request_state
    IN  CASE rs.s = "Args" /\ rs.n = 0 ->
               Push([m EXCEPT !.request_state = StInit], <<I("ReqLoop")>>)
          [] rs.s = "Args" /\ rs.n > 0 -> Push(m, request_args)
          [] rs.s = "Init" -> Push(m, <<I("PeekInit")>>)
          [] rs.s = "Splitting" ->
               IF m.arguments # <<>>
               THEN Finish([m EXCEPT !.arguments = Tail(@)], Some(Argument(Head(m.arguments))))
               ELSE Finish([m EXCEPT !.request_state = StInit], Some(End))
          [] rs.s = "Done" -> Finish(m, None)

\* A variant of ExecReqLoop that takes the tokens of a line from the back
\* of the queue.
ExecReqLoopPopsBack(m) ==
    LET rs == m.request_state
    IN  CASE rs.s = "Args" /\ rs.n = 0 ->
               Finish([m EXCEPT !.request_state = StInit], Some(End))
          [] rs.s = "Args" /\ rs.n > 0 -> Push(m, request_args)
          [] rs.s = "Init" -> Push(m, <<I("PeekInit")>>)
          [] rs.s = "Splitting" ->
               IF m.arguments # <<>>
               THEN Finish([m EXCEPT !.arguments = SubSeq(@, 1, Len(@) - 1)],
                           Some(Argument(m.arguments[Len(m.arguments)])))
               ELSE Finish([m EXCEPT !.request_state = StInit], Some(End))
          [] rs.s = "Done" -> Finish(m, None)

\* The head of request()'s loop: match self.request_state.
ExecReqLoop(m) ==
    LET rs == m.request_state
    IN  CASE rs.s = "Args" /\ rs.n = 0 ->
               Finish([m EXCEPT !.request_state = StInit], Some(End))
          [] rs.s = "Args" /\ rs.n > 0 -> Push(m, request_args)
          [] rs.s = "Init" -> Push(m, <<I("PeekInit")>>)
          [] rs.s = "Splitting" ->
               IF m.arguments # <<>>
               THEN Finish([m EXCEPT !.arguments = Tail(@)], Some(Argument(Head(m.arguments))))
               ELSE Finish([m EXCEPT !.request_state = StInit], Some(End))
          [] rs.s = "Done" -> Finish(m, None)

\* A variant of ExecPeekInit that returns Ok(None) at the end of the input
\* without storing Done.
ExecPeekInitStaysInit(m) ==
    IF m.buffer = <<>>
    THEN IF m.eof THEN Finish(m, None)
         ELSE [m EXCEPT !.st = "wait"]
    ELSE IF Head(m.buffer) = Ord["*"] THEN Push(m, request_init_array)
    ELSE Push(m, request_init_inline)

\* A variant of ExecPeekInit that takes the '$' of a blob for the start of
\* an array request as well.
ExecPeekInitAnyMarker(m) ==
    IF m.buffer = <<>>
    THEN IF m.eof THEN Finish([m EXCEPT !.request_state = StDone], None)
         ELSE [m EXCEPT !.st = "wait"]
    ELSE IF Head(m.buffer) \in {Ord["*"], Ord["$"]} THEN Push(m, request_init_array)
    ELSE Push(m, request_init_inline)

\* request(), Init: peek(); end of input closes the stream, '*' starts an
\* array request, anything else an inline line.
ExecPeekInit(m) ==
    IF m.buffer = <<>>
    THEN IF m.eof THEN Finish([m EXCEPT !.request_state = StDone], None)
         ELSE [m EXCEPT !.st = "wait"]
    ELSE IF Head(m.buffer) = Ord["*"] THEN Push(m, request_init_array)
    ELSE Push(m, request_init_inline)

\* self.request_state = Args(self.read_size().await?); continue
ExecSetArgs(m) ==
    Skip([m EXCEPT !.request_state = Args(ToNat(m.size)), !.clean = TRUE])

\* A variant of ExecArgsDone that forgets to count the argument down.
ExecArgsDoneKeepsCount(m) == Finish(m, Some(Argument(m.val)))

\* self.request_state = Args(c - 1); return Ok(Some(result.into()))
ExecArgsDone(m) ==
    Finish([m EXCEPT !.request_state = Args(m.request_state.n - 1)], Some(Argument(m.val)))

\* A variant of ExecSplitResult that treats a rejected line as the end of
\* the stream.
ExecSplitCloses(m, r) ==
    IF r.ok
    THEN Push([m EXCEPT !.arguments = r.arguments, !.request_state = StSplitting,
                        !.clean = TRUE],
              <<I("ReqLoop")>>)
    ELSE Finish([m EXCEPT !.arguments = r.arguments, !.request_state = StDone],
                Some(InvalidArgument))

\* request(), Init, after split returned `r`: Ok goes to Splitting, Err
\* returns InvalidArgument and leaves request_state alone.
ExecSplitResult(m, r) ==
    IF r.ok
    THEN Push([m EXCEPT !.arguments = r.arguments, !.request_state = StSplitting,
                        !.clean = TRUE],
              <<I("ReqLoop")>>)
    ELSE Finish([m EXCEPT !.arguments = r.arguments], Some(InvalidArgument))

\* self.splitter.split(&line[..])
ExecSplit(m) == ExecSplitResult(m, SplitterSplit(m.arguments, m.val))

\* One instruction of the coroutine, under the limits `cfg` reads now.
Exec(m, cfg) ==
    LET op == Head(m.k).op
    IN  CASE op = "Require" -> ExecRequire(m)
          [] op = "PeekFrame" -> ExecPeekFrame(m)
          [] op = "PeekNil" -> ExecPeekNil(m)
          [] op = "SizeGuard" -> ExecSizeGuard(m)
          [] op = "SizeLoop" -> ExecSizeLoop(m)
          [] op = "SizeDone" ->
               Skip([m EXCEPT !.hdr_len = Len(m.buffer), !.hdr_pulled = m.pulled])
          [] op = "CheckBlob" -> ExecCheckBlob(m, cfg)
          [] op = "CheckVerbatim" ->
               IF ToNat(m.size) < 4 THEN Finish(m, Fail(E("InvalidVerbatim"))) ELSE Skip(m)
          [] op = "ReadExact" -> ExecReadExact(m)
          [] op = "VerbatimColon" ->
               IF m.val[4] # Ord[":"] THEN Finish(m, Fail(E("InvalidVerbatim"))) ELSE Skip(m)
          [] op = "LineStart" -> Skip([m EXCEPT !.from = 0])
          [] op = "LineLoop" -> ExecLineLoop(m, cfg)
          [] op = "PopBool" -> ExecPopBool(m)
          [] op = "Ret" -> ExecRet(m)
          [] op = "ReqLoop" -> ExecReqLoop(Turn(m))
          [] op = "PeekInit" -> ExecPeekInit(m)
          [] op = "SetArgs" -> ExecSetArgs(m)
          [] op = "ArgsDone" -> ExecArgsDone(m)
          [] op = "Split" -> ExecSplit(m)

RECURSIVE Run(_, _)
\* Poll the coroutine: run it until it is suspended in read() or returns.
Run(m, cfg) ==
    IF m.st = "run" THEN CHOOSE r \in {Run(next, cfg) : next \in {Exec(m, cfg)}} : TRUE
    ELSE m

\* ------------------------------------------------------------------ state

VARIABLES
    api,       \* the entry point the caller drives: frame(), value(), request()
               \* called again and again, or the stream frames(), values(),
               \* requests() polled with next()
    input,     \* all the bytes the source (inner) will ever deliver
    pos,       \* how many of them read() has pulled so far
    reader,    \* RespReader: buffer, request_state, splitter.arguments
    config,    \* RespConfig: blob_limit, inline_limit
    task,      \* the future of the call in flight (see the machine above)
    out,       \* the results returned / the items yielded so far
    closed,    \* the stream has ended (Fuse)
    dropped,   \* requests(): the unfold state is None (reader dropped)
    polling,   \* a stream's next() future is alive
    cancels,   \* how many futures the caller has abandoned
    dirty,     \* some future was abandoned after its call had consumed bytes
    midway,    \* some future was abandoned after its call had pulled bytes
    split,     \* some read() returned less than all the bytes still to come
    expect,    \* the items the input was built to produce, when it was
    ref,       \* the results of an uninterrupted run, all bytes in one read
    version,   \* RespWriter.version
    written,   \* the frame handed to the writer, and the result of the write
    sink,      \* the bytes the writer has written
    splitter,  \* a Splitter driven on its own: the line, the result of split
               \* and what next() returned
    shared     \* the atomics behind the RespConfigs in existence, the
               \* RespConfigs, and what was last stored and loaded

vars == <<api, input, pos, reader, config, task, out, closed, dropped, polling,
          cancels, dirty, midway, split, expect, ref, version, written, sink,
          splitter, shared>>

\* Splitter::default() about to be handed `earlier` and then `line`, or
\* `line` alone when `earlier` is empty: nothing queued, nothing buffered.
SplitterNew(job) ==
    [st |-> "new", line |-> job.line, earlier |-> job.earlier, before |-> <<>>,
     ok |-> TRUE, arguments |-> <<>>, buffer |-> <<>>, taken |-> <<>>]

\* ----------------------------------------------------------------- bounds

\* Results per behaviour: the caller stops calling after this many.
MaxCalls == 6

\* Futures the caller abandons per behaviour.
MaxCancels == 1

\* Requests per generated request stream.
MaxSegs == 2

\* The limits the model's readers are configured with (set_blob_limit,
\* set_inline_limit), as in the tests of reader.rs.
BlobLimit == 5
InlineLimit == 8

\* RespConfig::default(): two new atomics holding the limits, and the one
\* RespConfig that points at them.  `stored` is what was last stored into
\* each limit through any RespConfig, `loaded` what blob_limit() and
\* inline_limit() returned when last called, <<>> before any call and
\* after a store.
RespConfigDefault ==
    [cells |-> <<InlineLimit, BlobLimit>>,
     configs |-> <<[inline_limit |-> 1, blob_limit |-> 2]>>,
     stored |-> Config(BlobLimit, InlineLimit),
     loaded |-> <<>>]

IsStream == api \in {"frames", "values", "requests"}

Fn(a) ==
    CASE a \in {"frame", "frames"} -> "frame"
      [] a \in {"value", "values"} -> "value"
      [] a \in {"request", "requests"} -> "request"

\* RespReader::new, with the count of the bytes that were taken out of the
\* buffer so far: a record of the past, which the code does not keep.
ReaderNew == [buffer |-> <<>>, request_state |-> StInit, arguments |-> <<>>, consumed |-> 0]

TaskIdle ==
    [fn |-> "", k |-> <<>>, size |-> <<0>>, from |-> 0, val |-> <<>>, stack |-> <<>>,
     st |-> "idle", eof |-> FALSE, res |-> None, pulled |-> 0, start |-> 0,
     clean |-> TRUE,
     site |-> "", hdr_len |-> 0, hdr_pulled |-> 0,
     turns |-> 0]

\* The future a call of `fn` creates.
TaskNew(fn, pulled) ==
    [TaskIdle EXCEPT !.fn = fn, !.st = "run", !.pulled = pulled, !.start = pulled,
                     !.k = <<I(IF fn = "request" THEN "ReqLoop" ELSE "PeekFrame")>>]

Machine(r, t) == t @@ r
ReaderOf(m) == [f \in DOMAIN ReaderNew |-> m[f]]
TaskOf(m) == [f \in DOMAIN TaskIdle |-> m[f]]

\* ------------------------------------------------------- streams, drivers

\* A variant of Unfold in which requests() keeps the reader after an error.
UnfoldKeepsReader(a, o, r) ==
    IF a \in {"frame", "value", "request"}
    THEN [out |-> Append(o, r), closed |-> FALSE, dropped |-> FALSE]
    ELSE IF r.kind = "None"
    THEN [out |-> o, closed |-> TRUE, dropped |-> FALSE]
    ELSE [out |-> Append(o, r), closed |-> FALSE, dropped |-> FALSE]

\* What the caller gets when a call returns `r`, given what it got so far:
\* frame(), value() and request() hand the result over as it is; frames()
\* and values() (unfold + transpose()? + fuse) end on Ok(None) and yield
\* every other result, errors too, keeping the reader; requests() ends on
\* Ok(None) and on an error yields Error(e) and drops the reader.
Unfold(a, o, r) ==
    IF a \in {"frame", "value", "request"}
    THEN [out |-> Append(o, r), closed |-> FALSE, dropped |-> FALSE]
    ELSE IF r.kind = "None"
    THEN [out |-> o, closed |-> TRUE, dropped |-> FALSE]
    ELSE [out |-> Append(o, r), closed |-> FALSE,
          dropped |-> a = "requests" /\ r.kind # "Some"]

\* read() pulled `chunk` (n > 0 bytes) into the buffer.
Pulled(m, chunk) ==
    [m EXCEPT !.buffer = @ \o chunk, !.pulled = @ + Len(chunk), !.st = "run"]

\* read() returned 0.
PulledNothing(m) == [m EXCEPT !.eof = TRUE, !.st = "run"]

RECURSIVE Feed(_, _, _)
\* An uninterrupted call over a source that delivers all of `inp` in one
\* read and then reports end of input: run the call; whenever it waits in
\* read(), complete the read.
Feed(m, inp, cfg) ==
    IF m.st = "run" THEN Feed(Run(m, cfg), inp, cfg)
    ELSE IF m.st # "wait" THEN m
    ELSE IF m.pulled < Len(inp)
    THEN Feed(Pulled(m, SubSeqFrom(inp, m.pulled + 1)), inp, cfg)
    ELSE Feed(PulledNothing(m), inp, cfg)

RECURSIVE RunAll(_, _, _, _, _, _, _)
\* The uninterrupted call returned in machine `m` and the caller now has
\* what `u` says: go on unless the stream is over.
RunAllNext(a, inp, cfg, m, u) ==
    IF u.closed THEN [out |-> u.out, closed |-> TRUE]
    ELSE RunAll(a, inp, cfg, ReaderOf(m), m.pulled, u.out, u.dropped)

\* The uninterrupted call returned in machine `m`.
RunAllCall(a, inp, cfg, o, m) == RunAllNext(a, inp, cfg, m, Unfold(a, o, m.res))

\* The results of calling the entry point `a` again and again, never
\* abandoning a call, on such a source.
RunAll(a, inp, cfg, r, pulled, o, dr) ==
    IF Len(o) >= MaxCalls THEN [out |-> o, closed |-> FALSE]
    ELSE IF dr THEN [out |-> o, closed |-> TRUE]
    ELSE RunAllCall(a, inp, cfg, o, Feed(Machine(r, TaskNew(Fn(a), pulled)), inp, cfg))

Reference(a, inp, cfg) == RunAll(a, inp, cfg, ReaderNew, 0, <<>>, FALSE)

\* ----------------------------------------------------------------- inputs

\* A CRLF-terminated line.
L(chars) == B(chars) \o CRLF

\* An array-framed request as a client writes it.
ArrayWire(payloads) ==
    <<Ord["*"]>> \o FormatNat(Len(payloads)) \o CRLF
    \o Concat([i \in 1..Len(payloads) |->
                 <<Ord["$"]>> \o FormatNat(Len(payloads[i])) \o CRLF
                 \o payloads[i] \o CRLF])

ArgumentsOf(payloads) == [i \in 1..Len(payloads) |-> Argument(payloads[i])]

Seg(kind, wire, items) == [kind |-> kind, wire |-> wire, items |-> items]

ArraySeg(payloads) ==
    Seg("array", ArrayWire(payloads), Append(ArgumentsOf(payloads), End))

\* The requests a generated request stream is made of, each with the items
\* it stands for.
Segs ==
    << ArraySeg(<<B(<<"x">>), B(<<"a", "b">>)>>),
       Seg("inline", L(<<"a", " ", " ", "b">>),
           <<Argument(B(<<"a">>)), Argument(B(<<"b">>)), End>>),
       Seg("invalid", L(<<"a", " ", "'", "b">>), <<InvalidArgument>>),
       ArraySeg(<<>>),
       ArraySeg(<<B(<<"$">>)>>),
       Seg("inline", L(<<>>), <<End>>),
       Seg("invalid", L(<<"\"", "a", "\"", "b">>), <<InvalidArgument>>) >>

\* The ones that are combined freely.
CoreSegs == 1..3

\* The generated streams: up to MaxSegs of the core requests in every
\* order, and the other requests in a few places.
SegLists ==
    UNION {[1..n -> CoreSegs] : n \in 1..MaxSegs}
    \cup {<<4>>, <<5>>, <<6>>, <<7>>, <<4, 1>>, <<1, 4>>, <<5, 5>>, <<7, 6>>, <<6, 1>>, <<7, 5>>}

\* An input, with what is known of it by construction: the requests it was
\* made of and the items they stand for, or the error its first value must
\* fail with because it repeats a key or a member.
Scenario(inp, segs, dup) ==
    [input |-> inp,
     kinds |-> [i \in 1..Len(segs) |-> Segs[segs[i]].kind],
     items |-> Concat([i \in 1..Len(segs) |-> Segs[segs[i]].items]),
     dup |-> dup]

\* Request streams without a known list of items: broken ones.
RawRequests ==
    { L(<<"*", "1">>) \o L(<<"$", "z">>) \o L(<<"a">>),
      L(<<"*", "1">>) \o L(<<"$", "9">>) \o B(<<"a", "b">>),
      L(<<"a", "a", "a", "a", "a", "a", "a", "a", "a", "a">>),
      L(<<"*", "1">>) \o L(<<"$", "1">>) \o B(<<"y">>),
      B(<<"a", "\r", "b", "\r", "\n">>) }

RequestScenarios ==
    {Scenario(Concat([i \in 1..Len(sl) |-> Segs[sl[i]].wire]), sl, "") : sl \in SegLists}
    \cup {Scenario(inp, <<>>, "") : inp \in RawRequests}

\* Values that repeat a key of a map or of an attribute: with another value
\* and with the same one, the key spelled the same way and another way.
DupMaps ==
    { L(<<"%", "2">>) \o L(<<"+", "a">>) \o L(<<":", "1">>)
          \o L(<<"+", "a">>) \o L(<<":", "2">>),
      L(<<"%", "2">>) \o L(<<"+", "a">>) \o L(<<":", "1">>)
          \o L(<<"$", "1">>) \o L(<<"a">>) \o L(<<":", "1">>),
      L(<<"|", "2">>) \o L(<<"_">>) \o L(<<"#", "t">>) \o L(<<"_">>) \o L(<<"#", "f">>) }

\* Values that repeat a member of a set, at the top and inside an array.
DupSets ==
    { L(<<"~", "2">>) \o L(<<":", "1">>) \o L(<<":", "0", "1">>),
      L(<<"*", "1">>) \o L(<<"~", "2">>) \o L(<<"_">>) \o L(<<"_">>) }

FrameInputs ==
    { L(<<"+", "a">>) \o L(<<":", "1", "2">>),
      L(<<"$", "3">>) \o L(<<"a", "b", "c">>) \o L(<<"$", "-", "1">>) \o L(<<"*", "-", "1">>),
      L(<<"*", "2">>) \o L(<<":", "1">>) \o L(<<":", "2">>),
      L(<<"%", "2">>) \o L(<<"+", "a">>) \o L(<<":", "1">>)
          \o L(<<"+", "b">>) \o L(<<":", "1">>),
      L(<<"~", "2">>) \o L(<<"+", "a">>) \o L(<<"+", "b">>),
      L(<<"%", "1">>) \o L(<<"+", "a">>) \o L(<<"*", "1">>) \o L(<<"_">>),
      L(<<"%", "1">>) \o L(<<"#", "t">>) \o L(<<":", "1">>),
      L(<<"=", "5">>) \o L(<<"t", "x", "t", ":", "a">>) \o L(<<"!", "2">>) \o L(<<"a", "b">>),
      L(<<"#", "t">>) \o L(<<",", "1", ".", "5">>) \o L(<<"(", "1", "2">>)
          \o L(<<"-", "e">>) \o L(<<"_">>),
      L(<<">", "1">>) \o L(<<"+", "a">>),
      L(<<"$", "9">>) \o B(<<"a", "b">>),
      L(<<"$", "7">>) \o L(<<"a", "b", "c", "d", "e", "f", "a">>),
      L(<<"=", "9">>) \o B(<<"a", "b">>),
      L(<<"!", "9">>) \o B(<<"a", "b">>),
      L(<<"x">>),
      L(<<"$", "3">>) \o B(<<"a", "b">>),
      L(<<"#", "x">>),
      L(<<"+", "a", "a", "a", "a", "a", "a", "a", "a", "a">>),
      L(<<"$">>) }

FrameScenarios ==
    {Scenario(inp, <<>>, "") : inp \in FrameInputs}
    \cup {Scenario(inp, <<>>, "InvalidMap") : inp \in DupMaps}
    \cup {Scenario(inp, <<>>, "InvalidSet") : inp \in DupSets}

Apis == {"frame", "value", "request", "frames", "values", "requests"}

ScenariosFor(a) == IF Fn(a) = "request" THEN RequestScenarios ELSE FrameScenarios

NotWritten == [st |-> "none", call |-> NoVal, res |-> NoErr]

\* ---------------------------------------------------------------- actions

\* The caller and the source, for a reader over `input`.
InitReader(a, sc) ==
    /\ api = a
    /\ input = sc.input
    /\ expect = [kinds |-> sc.kinds, items |-> sc.items, dup |-> sc.dup]
    /\ config = Config(BlobLimit, InlineLimit)
    /\ ref = Reference(a, sc.input, Config(BlobLimit, InlineLimit))
    /\ pos = 0
    /\ reader = ReaderNew
    /\ task = TaskIdle
    /\ out = <<>>
    /\ closed = FALSE
    /\ dropped = FALSE
    /\ polling = FALSE
    /\ cancels = 0
    /\ dirty = FALSE
    /\ midway = FALSE
    /\ split = FALSE

Init ==
    /\ \E a \in Apis : \E sc \in ScenariosFor(a) : InitReader(a, sc)
    /\ version = "V2"
    /\ written = NotWritten
    /\ sink = <<>>
    /\ splitter = SplitterNew([line |-> <<>>, earlier |-> <<>>])
    /\ shared = RespConfigDefault

\* The coroutine was polled and is now `m`: suspended again, or returned;
\* `o` is what the caller holds of the earlier results.
PolledOnto(m, o) ==
    \E now \in {m} :
    \E u \in {IF now.st = "done" THEN Unfold(api, o, now.res)
               ELSE [out |-> o, closed |-> closed, dropped |-> dropped]} :
        /\ reader' = ReaderOf(now)
        /\ task' = TaskOf(now)
        /\ pos' = now.pulled
        /\ out' = u.out
        /\ closed' = u.closed
        /\ dropped' = u.dropped
        /\ polling' = (IsStream /\ now.st = "wait")

\* The same, the caller keeping every result it got.
Polled(m) == PolledOnto(m, out)

\* The caller calls frame() / value() / request(), or polls next() on a
\* stream that has no call in flight.
StartCall ==
    /\ written.st # "todo"
    /\ task.st \in {"idle", "done"}
    /\ ~closed
    /\ Len(out) < MaxCalls
    /\ IF dropped
       THEN /\ closed' = TRUE
            /\ UNCHANGED <<reader, task, pos, out, dropped, polling>>
       ELSE Polled(Run(Machine(reader, TaskNew(Fn(api), pos)), config))
    /\ UNCHANGED <<api, input, config, cancels, dirty, midway, split, expect, ref,
                   version, written, sink, splitter, shared>>

\* The read() the call is suspended in returns n > 0 bytes.
ReadChunk ==
    /\ task.st = "wait"
    /\ IsStream => polling
    /\ \E n \in 1..(Len(input) - pos) :
         /\ Polled(Run(Pulled(Machine(reader, task), SubSeq(input, pos + 1, pos + n)), config))
         /\ split' = (split \/ n < Len(input) - pos)
    /\ UNCHANGED <<api, input, config, cancels, dirty, midway, expect, ref,
                   version, written, sink, splitter, shared>>

\* The read() the call is suspended in returns 0: the source is at its end.
ReadEof ==
    /\ task.st = "wait"
    /\ IsStream => polling
    /\ pos = Len(input)
    /\ Polled(Run(PulledNothing(Machine(reader, task)), config))
    /\ UNCHANGED <<api, input, config, cancels, dirty, midway, split, expect, ref,
                   version, written, sink, splitter, shared>>

\* A variant of Cancel in which request_state lives in the future, not in
\* the reader, and goes with it.
CancelLosesState ==
    /\ ~IsStream
    /\ task.st = "wait"
    /\ cancels < MaxCancels
    /\ task' = TaskIdle
    /\ reader' = [reader EXCEPT !.request_state = StInit]
    /\ cancels' = cancels + 1
    /\ dirty' = (dirty \/ ~task.clean)
    /\ midway' = (midway \/ task.pulled > task.start)
    /\ UNCHANGED <<api, input, pos, config, out, closed, dropped, polling,
                   split, expect, ref, version, written, sink, splitter, shared>>

\* The caller drops the future of frame() / value() / request() while it is
\* suspended: its locals and position are gone, the reader's fields stay.
Cancel ==
    /\ ~IsStream
    /\ task.st = "wait"
    /\ cancels < MaxCancels
    /\ task' = TaskIdle
    /\ cancels' = cancels + 1
    /\ dirty' = (dirty \/ ~task.clean)
    /\ midway' = (midway \/ task.pulled > task.start)
    /\ UNCHANGED <<api, input, pos, reader, config, out, closed, dropped, polling,
                   split, expect, ref, version, written, sink, splitter, shared>>

\* A variant of Abandon in which the call in flight goes with the future
\* of next(), as if the stream created it inside next().
AbandonDropsCall ==
    /\ IsStream
    /\ polling
    /\ cancels < MaxCancels
    /\ polling' = FALSE
    /\ task' = TaskIdle
    /\ cancels' = cancels + 1
    /\ dirty' = (dirty \/ ~task.clean)
    /\ midway' = (midway \/ task.pulled > task.start)
    /\ UNCHANGED <<api, input, pos, reader, config, out, closed, dropped,
                   split, expect, ref, version, written, sink, splitter, shared>>

\* The caller drops the future of next(): the stream keeps the call in
\* flight (unfold stores it), nothing else changes.
Abandon ==
    /\ IsStream
    /\ polling
    /\ cancels < MaxCancels
    /\ polling' = FALSE
    /\ cancels' = cancels + 1
    /\ dirty' = (dirty \/ ~task.clean)
    /\ midway' = (midway \/ task.pulled > task.start)
    /\ UNCHANGED <<api, input, pos, reader, config, task, out, closed, dropped,
                   split, expect, ref, version, written, sink, splitter, shared>>

\* The caller polls next() again after abandoning it.
Resume ==
    /\ IsStream
    /\ ~polling
    /\ task.st = "wait"
    /\ polling' = TRUE
    /\ UNCHANGED <<api, input, pos, reader, config, task, out, closed, dropped,
                   cancels, dirty, midway, split, expect, ref, version, written, sink, splitter, shared>>

Next == StartCall \/ ReadChunk \/ ReadEof \/ Cancel \/ Abandon \/ Resume

Spec == Init /\ [][Next]_vars


\* ----------------------------------------------------------------- writer

\* The outcome of a write call: Ok(()) with the bytes handed to inner, or
\* an error before the first byte.
WriteOk(bytes) == [e |-> NoErr, bytes |-> bytes]
WriteErr(e) == [e |-> E(e), bytes |-> <<>>]

\* The call panicked before its first write.
WritePanic == [e |-> E("panic"), bytes |-> <<>>]

v2(v) == v = "V2"
v3(v) == v = "V3"

write_array(v, len) == WriteOk(<<Ord["*"]>> \o FormatUsize(len) \o CRLF)

write_attribute(v, value) ==
    IF v2(v) THEN WriteErr("Version")
    ELSE WriteOk(<<Ord["|"]>> \o FormatNat(Len(value)) \o CRLF \o value \o CRLF)

\* A variant of write_bignum that writes the marker before it validates
\* the payload.
write_bignum_marker_first(v, value) ==
    IF Contains(value, LF)
    THEN [e |-> E("Newline"), bytes |-> <<IF v3(v) THEN Ord["("] ELSE Ord["+"]>>]
    ELSE WriteOk(<<IF v3(v) THEN Ord["("] ELSE Ord["+"]>> \o value \o CRLF)

write_bignum(v, value) ==
    IF Contains(value, LF) THEN WriteErr("Newline")
    ELSE WriteOk(<<IF v3(v) THEN Ord["("] ELSE Ord["+"]>> \o value \o CRLF)

\* A variant of write_blob_error that writes the header before it looks at
\* the version.
write_blob_error_checks_late(v, value) ==
    IF v2(v)
    THEN [e |-> E("Version"), bytes |-> <<Ord["!"]>> \o FormatNat(Len(value)) \o CRLF]
    ELSE WriteOk(<<Ord["!"]>> \o FormatNat(Len(value)) \o CRLF \o value \o CRLF)

write_blob_error(v, value) ==
    IF v2(v) THEN WriteErr("Version")
    ELSE WriteOk(<<Ord["!"]>> \o FormatNat(Len(value)) \o CRLF \o value \o CRLF)

write_blob_string(v, value) ==
    WriteOk(<<Ord["$"]>> \o FormatNat(Len(value)) \o CRLF \o value \o CRLF)

\* A variant of write_boolean that writes the RESP3 boolean at either version.
write_boolean_any_version(v, value) ==
    WriteOk(IF value = 1 THEN L(<<"#", "t">>) ELSE L(<<"#", "f">>))

write_boolean(v, value) ==
    WriteOk(CASE v3(v) /\ value = 1 -> L(<<"#", "t">>)
              [] v3(v) /\ value = 0 -> L(<<"#", "f">>)
              [] ~v3(v) /\ value = 1 -> L(<<":", "1">>)
              [] ~v3(v) /\ value = 0 -> L(<<":", "0">>))

write_double(v, value) ==
    WriteOk(<<IF v3(v) THEN Ord[","] ELSE Ord["+"]>> \o FormatF64(value) \o CRLF)

write_integer(v, value) == WriteOk(<<Ord[":"]>> \o FormatInt(value) \o CRLF)

write_nil(v) == WriteOk(IF v3(v) THEN L(<<"_">>) ELSE L(<<"$", "-", "1">>))

\* At V2 the count is 2 * len, computed in usize.  When the product does
\* not fit, a build with overflow checks (`checks`, the default of a debug
\* build) panics while the arguments of write! are evaluated, before
\* anything is written; a build without them writes the wrapped product,
\* which for usize::MAX is usize::MAX - 1.
write_map(v, len, checks) ==
    IF v3(v) THEN WriteOk(<<Ord["%"]>> \o FormatUsize(len) \o CRLF)
    ELSE IF len # UsizeMax THEN WriteOk(<<Ord["*"]>> \o FormatNat(2 * len) \o CRLF)
    ELSE IF checks THEN WritePanic
    ELSE WriteOk(<<Ord["*"]>>
                 \o [i \in 1..Len(UsizeMaxDigits) |->
                       Ord["0"] + (IF i = Len(UsizeMaxDigits) THEN UsizeMaxDigits[i] - 1
                                   ELSE UsizeMaxDigits[i])]
                 \o CRLF)

write_push(v, len) ==
    WriteOk(<<IF v3(v) THEN Ord[">"] ELSE Ord["*"]>> \o FormatUsize(len) \o CRLF)

write_set(v, len) ==
    WriteOk(<<IF v3(v) THEN Ord["~"] ELSE Ord["*"]>> \o FormatUsize(len) \o CRLF)

write_simple_error(v, value) ==
    IF Contains(value, LF) THEN WriteErr("Newline")
    ELSE WriteOk(<<Ord["-"]>> \o value \o CRLF)

write_simple_string(v, value) ==
    IF Contains(value, LF) THEN WriteErr("Newline")
    ELSE WriteOk(<<Ord["+"]>> \o value \o CRLF)

\* A variant of write_verbatim whose header counts the value only.
write_verbatim_counts_value(v, format, value) ==
    WriteOk(<<IF v3(v) THEN Ord["="] ELSE Ord["$"]>> \o FormatNat(Len(value)) \o CRLF
            \o (IF v3(v) THEN format \o <<Ord[":"]>> ELSE <<>>) \o value \o CRLF)

write_verbatim(v, format, value) ==
    IF v3(v)
    THEN WriteOk(<<Ord["="]>> \o FormatNat(Len(format) + 1 + Len(value)) \o CRLF
                 \o format \o <<Ord[":"]>> \o value \o CRLF)
    ELSE WriteOk(<<Ord["$"]>> \o FormatNat(Len(value)) \o CRLF \o value \o CRLF)

\* The write call for the frame `f` (for an Attribute, `f.b` is the value
\* write_attribute is given), in a build with or without overflow checks.
WriteFrame(v, f, checks) ==
    CASE f.t = "Array" -> write_array(v, f.n)
      [] f.t = "Attribute" -> write_attribute(v, f.b)
      [] f.t = "Bignum" -> write_bignum(v, f.b)
      [] f.t = "BlobError" -> write_blob_error(v, f.b)
      [] f.t = "BlobString" -> write_blob_string(v, f.b)
      [] f.t = "Boolean" -> write_boolean(v, f.n)
      [] f.t = "Double" -> write_double(v, f.n)
      [] f.t = "Integer" -> write_integer(v, f.n)
      [] f.t = "Nil" -> write_nil(v)
      [] f.t = "Map" -> write_map(v, f.n, checks)
      [] f.t = "Push" -> write_push(v, f.n)
      [] f.t = "Set" -> write_set(v, f.n)
      [] f.t = "SimpleError" -> write_simple_error(v, f.b)
      [] f.t = "SimpleString" -> write_simple_string(v, f.b)
      [] f.t = "Verbatim" -> write_verbatim(v, f.a, f.b)

\* The frames handed to the writer.
WriteCalls ==
    {FrameLen(t, n) : t \in {"Array", "Map", "Push", "Set"}, n \in {0, 2, 12, UsizeMax}}
    \cup {FrameLen("Boolean", n) : n \in {0, 1}}
    \cup {FrameLen("Integer", n) : n \in {0, 12, 0 - 7}}
    \cup {FrameLen("Double", n) : n \in {0, 150, 0 - 25, 1200, F64Inf, F64NegInf, F64NaN}}
    \cup {FrameNil}
    \cup {FrameBytes(t, b) :
            t \in {"Attribute", "BlobError", "BlobString"},
            b \in {<<>>, B(<<"a", "b">>), B(<<"a", "\r", "\n", "b">>),
                   B(<<"a", "b", "c", "d", "e">>), B(<<"a", "b", "c", "d", "e", "f">>)}}
    \cup {FrameBytes(t, b) :
            t \in {"Bignum", "SimpleError", "SimpleString"},
            b \in {<<>>, B(<<"1", "2">>), B(<<"a", "\n", "b">>), B(<<"a", "\r", "b">>),
                   B(<<"1", "2", "3", "4", "5", "6", "7">>),
                   B(<<"1", "2", "3", "4", "5", "6", "7", "8">>)}}
    \cup {Val("Verbatim", 0, a, b, <<>>) :
            a \in {B(<<"t", "x", "t">>), B(<<"t", "x">>)},
            b \in {<<>>, B(<<"a">>), B(<<":", "a">>), B(<<"a", "b">>)}}

\* A writer at version v is about to be handed the frame f; a reader over
\* what the writer writes is called with frame().
InitRoundTrip ==
    /\ api = "frame"
    /\ input = <<>>
    /\ expect = [kinds |-> <<>>, items |-> <<>>, dup |-> ""]
    /\ config = Config(BlobLimit, InlineLimit)
    /\ ref = [out |-> <<>>, closed |-> FALSE]
    /\ pos = 0
    /\ reader = ReaderNew
    /\ task = TaskIdle
    /\ out = <<>>
    /\ closed = FALSE
    /\ dropped = FALSE
    /\ polling = FALSE
    /\ cancels = 0
    /\ dirty = FALSE
    /\ midway = FALSE
    /\ split = FALSE
    /\ version \in {"V2", "V3"}
    /\ \E f \in WriteCalls : written = [st |-> "todo", call |-> f, res |-> NoErr]
    /\ sink = <<>>
    /\ splitter = SplitterNew([line |-> <<>>, earlier |-> <<>>])
    /\ shared = RespConfigDefault

\* The write call runs; what it writes is what the reader's source holds.
Write ==
    /\ written.st = "todo"
    /\ \E checks \in BOOLEAN :
         LET w == WriteFrame(version, written.call, checks)
         IN  /\ written' = [written EXCEPT !.st = "done", !.res = w.e]
             /\ sink' = sink \o w.bytes
             /\ input' = sink \o w.bytes
    /\ UNCHANGED <<api, pos, reader, config, task, out, closed, dropped, polling,
                   cancels, dirty, midway, split, expect, ref, version, splitter, shared>>

NextRoundTrip == Write \/ StartCall \/ ReadChunk \/ ReadEof

RoundTrip == InitRoundTrip /\ [][NextRoundTrip]_vars

\* ------------------------------------------------- the splitter on its own

\* The longest line over SplitBytes handed to the splitter.
MaxLine == 5

\* A space, a letter, the two quotes, the backslash and the x of \x.
SplitBytes == {32, Ord["a"], Quote, DQuote, Backslash, Ord["x"]}

\* The bytes tried between two letters: the ASCII control characters that
\* pass for blanks, and the space.
BlankBytes == {9, 10, 11, 12, 13, 32}

\* The bytes tried after a backslash inside double quotes.
EscapedBytes ==
    {Ord[c] : c \in {"a", "b", "n", "r", "t", "e", "x", "0", "\\", "'", "\"", " "}}

\* The bytes tried after \x.
HexBytes == {Ord[c] : c \in {"0", "9", "a", "f", "A", "F", "x", "+", "-", " "}}

\* The lines handed to the splitter.
SplitLines ==
    UNION {[1..n -> SplitBytes] : n \in 0..MaxLine}
    \cup {<<Ord["a"], w, Ord["b"]>> : w \in BlankBytes}
    \cup {<<w, Ord["a"], w>> : w \in BlankBytes}
    \cup {<<DQuote, Backslash, c, DQuote>> : c \in EscapedBytes}
    \cup {<<DQuote, Backslash, Ord["x"], a, b, DQuote>> : a \in HexBytes, b \in HexBytes}

\* The line a splitter may have been handed before: its two tokens are
\* still queued.
SplitEarlierLines == {B(<<"x", " ", "b">>)}

\* A fresh splitter and the lines it will be handed; the reader and the
\* writer are not used.
InitSplitting ==
    /\ api = "frame"
    /\ input = <<>>
    /\ expect = [kinds |-> <<>>, items |-> <<>>, dup |-> ""]
    /\ config = Config(BlobLimit, InlineLimit)
    /\ ref = [out |-> <<>>, closed |-> FALSE]
    /\ pos = 0
    /\ reader = ReaderNew
    /\ task = TaskIdle
    /\ out = <<>>
    /\ closed = FALSE
    /\ dropped = FALSE
    /\ polling = FALSE
    /\ cancels = 0
    /\ dirty = FALSE
    /\ midway = FALSE
    /\ split = FALSE
    /\ version = "V2"
    /\ written = NotWritten
    /\ sink = <<>>
    /\ \E line \in SplitLines : \E earlier \in SplitEarlierLines :
         splitter = SplitterNew([line |-> line, earlier |-> earlier])
    /\ shared = RespConfigDefault

\* The splitter after split(line) returned r.
SplitterAfter(sp, st, r) ==
    [sp EXCEPT !.st = st, !.before = sp.arguments, !.ok = r.ok,
               !.arguments = r.arguments, !.buffer = r.buffer]

\* split(earlier) on the fresh splitter; nobody calls next() after it.
SplitEarlier ==
    /\ splitter.st = "new"
    /\ splitter' = SplitterAfter(splitter, "primed",
                                 SplitterSplit(splitter.arguments, splitter.earlier))
    /\ UNCHANGED <<api, input, pos, reader, config, task, out, closed, dropped, polling,
                   cancels, dirty, midway, split, expect, ref, version, written, sink, shared>>

\* split(line).
SplitLine ==
    /\ splitter.st \in {"new", "primed"}
    /\ splitter' = SplitterAfter(splitter, "split",
                                 SplitterSplit(splitter.arguments, splitter.line))
    /\ UNCHANGED <<api, input, pos, reader, config, task, out, closed, dropped, polling,
                   cancels, dirty, midway, split, expect, ref, version, written, sink, shared>>

\* Splitter::next(): pop_front on the queue.  The caller stops at None.
SplitterNext ==
    /\ splitter.st = "split"
    /\ splitter' =
         IF splitter.arguments = <<>>
         THEN [splitter EXCEPT !.st = "drained", !.taken = Append(@, None)]
         ELSE [splitter EXCEPT !.arguments = Tail(@),
                               !.taken = Append(@, Some(Head(splitter.arguments)))]
    /\ UNCHANGED <<api, input, pos, reader, config, task, out, closed, dropped, polling,
                   cancels, dirty, midway, split, expect, ref, version, written, sink, shared>>

NextSplitting == SplitEarlier \/ SplitLine \/ SplitterNext

Splitting == InitSplitting /\ [][NextSplitting]_vars

\* ------------------------------------------------- the two inline splitters

\* The bytes a token is made of, in the lines below.
WordBytes == {Ord["a"], Ord["x"]}

\* A quoted token that holds one escape, a blank, and up to MaxTokens - 1
\* tokens more: unquoted, or quoted in turn.
MaxTokens == 3

EscapedTokens ==
    {<<Quote, Backslash, Quote, Quote>>, <<Quote, Ord["a"], Backslash, Quote, Quote>>}
    \cup {<<DQuote, Backslash, c, DQuote>> : c \in {Ord["n"], Ord["a"], DQuote}}
    \cup {<<DQuote, Backslash, Ord["x"], a, Ord["1"], DQuote>> : a \in {Ord["4"], Ord["x"]}}

Words ==
    {<<a>> : a \in WordBytes} \cup {<<a, b>> : a, b \in WordBytes}
    \cup {<<Quote, a, Quote>> : a \in WordBytes}

RECURSIVE Joined(_)
\* The tokens of a list, one blank between two.
Joined(ws) == IF ws = <<>> THEN <<>>
              ELSE IF Len(ws) = 1 THEN ws[1]
              ELSE ws[1] \o <<32>> \o Joined(Tail(ws))

\* The lines handed to both splitters.
BothLines ==
    SplitLines
    \cup {Joined(<<e>> \o ws) : e \in EscapedTokens,
                                ws \in UNION {[1..n -> Words] : n \in 0..(MaxTokens - 1)}}
    \cup {Joined(<<w, e>>) : w \in Words, e \in EscapedTokens}

\* A fresh Splitter and an empty queue for the free function, and the line
\* both will be handed.
InitSplitters ==
    /\ api = "frame"
    /\ input = <<>>
    /\ expect = [kinds |-> <<>>, items |-> <<>>, dup |-> ""]
    /\ config = Config(BlobLimit, InlineLimit)
    /\ ref = [out |-> <<>>, closed |-> FALSE]
    /\ pos = 0
    /\ reader = ReaderNew
    /\ task = TaskIdle
    /\ out = <<>>
    /\ closed = FALSE
    /\ dropped = FALSE
    /\ polling = FALSE
    /\ cancels = 0
    /\ dirty = FALSE
    /\ midway = FALSE
    /\ split = FALSE
    /\ version = "V2"
    /\ written = NotWritten
    /\ sink = <<>>
    /\ \E line \in BothLines : splitter = SplitterNew([line |-> line, earlier |-> <<>>])
    /\ shared = RespConfigDefault

\* split(line, &mut arguments) of split.rs, on a copy of the line: what it
\* returned and the queue it filled are kept in out.
SplitFreeLine ==
    /\ out = <<>>
    /\ out' = <<SplitFreeCall(splitter.line)>>
    /\ UNCHANGED <<api, input, pos, reader, config, task, closed, dropped, polling,
                   cancels, dirty, midway, split, expect, ref, version, written, sink,
                   splitter, shared>>

NextSplitters == SplitLine \/ SplitFreeLine

Splitters == InitSplitters /\ [][NextSplitters]_vars

\* ------------------------------------------------------- the size field

\* The longest size field over SizeBytes put after a '>'.
MaxField == 4

\* Three digits, the two bytes of the line end and a letter.
SizeBytes == {Ord["0"], Ord["1"], Ord["9"], CR, LF, Ord["x"]}

\* usize::MAX, the number after it, ten times it, and it again after two
\* zeros, each as a size field with its line end.
WordFields ==
    {[i \in 1..Len(d) |-> Ord["0"] + d[i]] \o CRLF :
        d \in {UsizeMaxDigits,
               SubSeq(UsizeMaxDigits, 1, 19) \o <<6>>,
               UsizeMaxDigits \o <<0>>,
               <<0, 0>> \o UsizeMaxDigits}}

SizeFields == UNION {[1..n -> SizeBytes] : n \in 0..MaxField} \cup WordFields

\* A reader over '>' and a size field, called with frame(): read_push is
\* the marker, read_size and nothing else.
InitSizes ==
    /\ api = "frame"
    /\ \E field \in SizeFields : input = <<Ord[">"]>> \o field
    /\ expect = [kinds |-> <<>>, items |-> <<>>, dup |-> ""]
    /\ config = Config(BlobLimit, InlineLimit)
    /\ ref = [out |-> <<>>, closed |-> FALSE]
    /\ pos = 0
    /\ reader = ReaderNew
    /\ task = TaskIdle
    /\ out = <<>>
    /\ closed = FALSE
    /\ dropped = FALSE
    /\ polling = FALSE
    /\ cancels = 0
    /\ dirty = FALSE
    /\ midway = FALSE
    /\ split = FALSE
    /\ version = "V2"
    /\ written = NotWritten
    /\ sink = <<>>
    /\ splitter = SplitterNew([line |-> <<>>, earlier |-> <<>>])
    /\ shared = RespConfigDefault

NextSizes == StartCall \/ ReadChunk \/ ReadEof

Sizes == InitSizes /\ [][NextSizes]_vars

\* ------------------------------------------------------------- the line

\* A fresh reader with limits `cfg` over a source that holds `inp`, driven
\* through the entry point `a`; the writer and the splitter are not used.
InitCall(a, inp, cfg) ==
    /\ api = a
    /\ input = inp
    /\ expect = [kinds |-> <<>>, items |-> <<>>, dup |-> ""]
    /\ config = cfg
    /\ ref = [out |-> <<>>, closed |-> FALSE]
    /\ pos = 0
    /\ reader = ReaderNew
    /\ task = TaskIdle
    /\ out = <<>>
    /\ closed = FALSE
    /\ dropped = FALSE
    /\ polling = FALSE
    /\ cancels = 0
    /\ dirty = FALSE
    /\ midway = FALSE
    /\ split = FALSE
    /\ version = "V2"
    /\ written = NotWritten
    /\ sink = <<>>
    /\ splitter = SplitterNew([line |-> <<>>, earlier |-> <<>>])
    /\ shared = RespConfigDefault

\* The inline_limit of the readers that are handed lines.
LineLimit == 3

\* The longest text put after a '+'.
MaxText == 5

\* A letter and the two bytes of the line end.
LineBytes == {Ord["a"], CR, LF}

LineTexts == UNION {[1..n -> LineBytes] : n \in 0..MaxText}

\* A reader over '+' and a text, called with frame(): read_simple_string
\* is the marker, read_line and nothing else.
InitLines ==
    \E text \in LineTexts :
        InitCall("frame", <<Ord["+"]>> \o text, Config(BlobLimit, LineLimit))

NextLines == StartCall \/ ReadChunk \/ ReadEof

Lines == InitLines /\ [][NextLines]_vars

\* ------------------------------------------- limits stored during a call

\* The values another holder of the RespConfig stores into the limits.
LimitValues == {1, LineLimit, BlobLimit}

\* The texts put after a '+' for these readers.
LimitTexts == UNION {[1..n -> LineBytes] : n \in 0..LineLimit}

\* What the readers whose limits change are handed: lines, and two blob
\* strings.
LimitInputs ==
    {<<Ord["+"]>> \o text : text \in LimitTexts}
    \cup {L(<<"$", "2">>) \o L(<<"a", "b">>), L(<<"$", "5">>) \o L(<<"a", "b", "c", "d", "e">>)}

\* A reader called with frame() or request(); its RespConfig has a clone
\* in other hands.
InitLimits ==
    \E a \in {"frame", "request"} : \E inp \in LimitInputs :
        InitCall(a, inp, Config(BlobLimit, LineLimit))

\* set_inline_limit(v) on a clone while the call is suspended in read(): a
\* store into the shared atomic.
SetInlineLimit ==
    /\ task.st = "wait"
    /\ \E v \in LimitValues :
         /\ v # config.inline_limit
         /\ config' = [config EXCEPT !.inline_limit = v]
    /\ UNCHANGED <<api, input, pos, reader, task, out, closed, dropped, polling,
                   cancels, dirty, midway, split, expect, ref, version, written, sink,
                   splitter, shared>>

\* set_blob_limit(v) on a clone while the call is suspended in read().
SetBlobLimit ==
    /\ task.st = "wait"
    /\ \E v \in LimitValues :
         /\ v # config.blob_limit
         /\ config' = [config EXCEPT !.blob_limit = v]
    /\ UNCHANGED <<api, input, pos, reader, task, out, closed, dropped, polling,
                   cancels, dirty, midway, split, expect, ref, version, written, sink,
                   splitter, shared>>

NextLimits == StartCall \/ ReadChunk \/ ReadEof \/ SetInlineLimit \/ SetBlobLimit

Limits == InitLimits /\ [][NextLimits]_vars

\* --------------------------------------------------- the shared RespConfig

\* How many RespConfigs there are at most: the first and its clones.
MaxHolders == 3

\* A variant of config_clone that gives the clone atomics of its own,
\* holding the values of the moment.
config_clone_snapshot(sh, h) ==
    [sh EXCEPT !.cells = @ \o <<sh.cells[sh.configs[h].inline_limit],
                                sh.cells[sh.configs[h].blob_limit]>>,
               !.configs = Append(@, [inline_limit |-> Len(sh.cells) + 1,
                                      blob_limit |-> Len(sh.cells) + 2])]

\* #[derive(Clone)] on RespConfig: Arc::clone of both fields, so the clone
\* points at the atomics of the original.
config_clone(sh, h) == [sh EXCEPT !.configs = Append(@, @[h])]

\* self.blob_limit.load(Relaxed) and self.inline_limit.load(Relaxed).
blob_limit(sh, h) == sh.cells[sh.configs[h].blob_limit]
inline_limit(sh, h) == sh.cells[sh.configs[h].inline_limit]

\* self.blob_limit.store(value, Relaxed).
set_blob_limit(sh, h, value) ==
    [sh EXCEPT !.cells[sh.configs[h].blob_limit] = value,
               !.stored.blob_limit = value, !.loaded = <<>>]

\* self.inline_limit.store(value, Relaxed).
set_inline_limit(sh, h, value) ==
    [sh EXCEPT !.cells[sh.configs[h].inline_limit] = value,
               !.stored.inline_limit = value, !.loaded = <<>>]

\* One RespConfig::default(); no reader is driven.
InitSharing ==
    InitCall("frame", <<>>, Config(BlobLimit, InlineLimit))

\* Some holder clones its RespConfig.
CloneConfig ==
    /\ Len(shared.configs) < MaxHolders
    /\ \E h \in 1..Len(shared.configs) : shared' = config_clone(shared, h)
    /\ UNCHANGED <<api, input, pos, reader, config, task, out, closed, dropped, polling,
                   cancels, dirty, midway, split, expect, ref, version, written, sink,
                   splitter>>

\* Some holder stores into one of the limits.
StoreBlobLimit ==
    /\ \E h \in 1..Len(shared.configs) : \E v \in LimitValues :
         shared' = set_blob_limit(shared, h, v)
    /\ UNCHANGED <<api, input, pos, reader, config, task, out, closed, dropped, polling,
                   cancels, dirty, midway, split, expect, ref, version, written, sink,
                   splitter>>

StoreInlineLimit ==
    /\ \E h \in 1..Len(shared.configs) : \E v \in LimitValues :
         shared' = set_inline_limit(shared, h, v)
    /\ UNCHANGED <<api, input, pos, reader, config, task, out, closed, dropped, polling,
                   cancels, dirty, midway, split, expect, ref, version, written, sink,
                   splitter>>

\* Some holder calls blob_limit() and inline_limit().
LoadLimits ==
    /\ \E h \in 1..Len(shared.configs) :
         shared' = [shared EXCEPT !.loaded =
                        <<[holder |-> h, blob_limit |-> blob_limit(shared, h),
                           inline_limit |-> inline_limit(shared, h)]>>]
    /\ UNCHANGED <<api, input, pos, reader, config, task, out, closed, dropped, polling,
                   cancels, dirty, midway, split, expect, ref, version, written, sink,
                   splitter>>

NextSharing == CloneConfig \/ StoreBlobLimit \/ StoreInlineLimit \/ LoadLimits

Sharing == InitSharing /\ [][NextSharing]_vars

\* ------------------------------------------- requests that are cut short

\* An array request and an inline request, as a client writes them.
ArrayRequest == ArrayWire(<<B(<<"x">>)>>)
InlineRequest == L(<<"a">>)

\* Two well-formed streams of requests.
RequestStreams == {ArrayRequest \o InlineRequest, InlineRequest \o ArrayRequest}

\* Streams with a line end that is broken or missing its line.
BrokenRequests ==
    { B(<<"a", "\r", "b", "\r", "\n">>) \o InlineRequest,
      L(<<"*", "1">>) \o L(<<"$", "z">>) \o InlineRequest,
      L(<<"a", "a", "a", "a", "a", "a", "a", "a", "a", "a">>) }

\* Every stream cut at every byte, and the broken ones.
CutRequests ==
    {SubSeq(w, 1, n) : w \in RequestStreams, n \in 0..(Len(ArrayRequest) + Len(InlineRequest))}
    \cup BrokenRequests

\* A reader over such a source, called with request() again and again or
\* turned into requests(); no call is abandoned.
InitRequests ==
    \E a \in {"request", "requests"} : \E inp \in CutRequests :
        InitCall(a, inp, Config(BlobLimit, InlineLimit))

NextRequests == StartCall \/ ReadChunk \/ ReadEof

Requests == InitRequests /\ [][NextRequests]_vars

\* --------------------------------------------------- frames, one by one

\* A frame as it is on the wire and as frame() returns it.
Wired(wire, frame) == [wire |-> wire, frame |-> frame]

\* Streams of well-formed frames: every kind of frame is in one of them.
FrameStreams ==
    { << Wired(L(<<"+", "a">>), FrameBytes("SimpleString", B(<<"a">>))),
         Wired(L(<<"$", "2">>) \o L(<<"a", "b">>), FrameBytes("BlobString", B(<<"a", "b">>))),
         Wired(L(<<":", "1", "2">>), FrameLen("Integer", 12)) >>,
      << Wired(L(<<"=", "5">>) \o L(<<"t", "x", "t", ":", "a">>),
               Val("Verbatim", 0, B(<<"t", "x", "t">>), B(<<"a">>), <<>>)),
         Wired(L(<<"#", "t">>), FrameLen("Boolean", 1)),
         Wired(L(<<"_">>), FrameNil),
         Wired(L(<<"-", "e">>), FrameBytes("SimpleError", B(<<"e">>))) >>,
      << Wired(L(<<"*", "1">>), FrameLen("Array", 1)),
         Wired(L(<<",", "1", ".", "5">>), FrameLen("Double", 150)),
         Wired(L(<<"(", "1", "2">>), FrameBytes("Bignum", B(<<"1", "2">>))),
         Wired(L(<<"%", "1">>), FrameLen("Map", 1)) >>,
      << Wired(L(<<">", "2">>), FrameLen("Push", 2)),
         Wired(L(<<"~", "0">>), FrameLen("Set", 0)),
         Wired(L(<<"|", "1">>), FrameLen("Attribute", 1)),
         Wired(L(<<"!", "2">>) \o L(<<"a", "b">>), FrameBytes("BlobError", B(<<"a", "b">>))) >> }

\* The bytes of the first n frames of a stream.
WireOf(stream, n) == Concat([i \in 1..n |-> stream[i].wire])

\* Every stream cut at every byte.
CutFrames ==
    UNION {{SubSeq(WireOf(st, Len(st)), 1, n) : n \in 0..Len(WireOf(st, Len(st)))} :
             st \in FrameStreams}

\* Bytes that are no type marker, alone and before other bytes.
UnknownFrames ==
    {<<b>> \o rest : b \in {Ord["x"], Ord["0"], Ord[" "], CR, LF, Ord["."]},
                     rest \in {<<>>, CRLF, L(<<"+", "a">>)}}

\* What may follow "$-" and "*-".
MaxTail == 4
TailBytes == {Ord["1"], Ord["2"], CR, LF}
NilFrames ==
    {<<m, Ord["-"]>> \o tail : m \in {Ord["$"], Ord["*"]},
                               tail \in UNION {[1..n -> TailBytes] : n \in 0..MaxTail}}

FrameCalls == CutFrames \cup UnknownFrames \cup NilFrames

\* Verbatim frames of every declared length up to MaxVerbatim, with ':' at
\* any place of the payload or at none, cut at every byte after the
\* length.
MaxVerbatim == 6
VerbatimBytes == {Ord["a"], Ord[":"]}
VerbatimWire(payload) == <<Ord["="], 48 + Len(payload)>> \o CRLF \o payload \o CRLF
VerbatimFrames ==
    UNION {{SubSeq(VerbatimWire(payload), 1, cut) : cut \in 4..(Len(payload) + 6)} :
             payload \in UNION {[1..n -> VerbatimBytes] : n \in 0..MaxVerbatim}}

\* The blob limits the verbatim frames are read under: one below the least
\* length of a verbatim frame, one above.
SmallBlobLimit == 2

\* A reader over such a source, called with frame() again and again; no
\* call is abandoned.
InitFrames ==
    \/ \E inp \in FrameCalls : InitCall("frame", inp, Config(BlobLimit, InlineLimit))
    \/ \E inp \in VerbatimFrames, limit \in {SmallBlobLimit, BlobLimit} :
           InitCall("frame", inp, Config(limit, InlineLimit))

NextFrames == StartCall \/ ReadChunk \/ ReadEof

Frames == InitFrames /\ [][NextFrames]_vars

\* ------------------------------------------------ streams polled to the end

\* The caller of a stream hands the items on in batches of MaxCalls: out is
\* the batch it is collecting.
LastItems == IF Len(out) < MaxCalls THEN out ELSE <<>>

\* next() on frames() or values() with no call in flight, as often as the
\* stream allows: the stream is fused, it is polled until it ends.
PollNext ==
    /\ IsStream
    /\ task.st \in {"idle", "done"}
    /\ ~closed
    /\ ~dropped
    /\ PolledOnto(Run(Machine(reader, TaskNew(Fn(api), pos)), config), LastItems)
    /\ UNCHANGED <<api, input, config, cancels, dirty, midway, split, expect, ref,
                   version, written, sink, splitter, shared>>

\* How many frames of a stream are polled to the end.
MaxPolled == 2

\* The first MaxPolled frames of every stream, cut at every byte.
CutStreams ==
    UNION {{SubSeq(WireOf(st, MaxPolled), 1, n) : n \in 0..Len(WireOf(st, MaxPolled))} :
             st \in FrameStreams}

\* frames() and values() over these and over the bytes that are no type
\* marker.
InitStreams ==
    \E a \in {"frames", "values"} : \E inp \in CutStreams \cup UnknownFrames :
        InitCall(a, inp, Config(BlobLimit, InlineLimit))

NextStreams == PollNext \/ ReadChunk \/ ReadEof

\* The caller goes on polling and the source goes on delivering, up to the
\* end of input it reports.
Streams == InitStreams /\ [][NextStreams]_vars /\ WF_vars(NextStreams)

\* ------------------------------------------------- aggregates, child by child

\* The greatest count of an aggregate header.
MaxCount == 2

\* The children on the wire, as they are written and as value() returns
\* them: no two are equal, and all can be keys of a map.
Children ==
    [i \in 1..(2 * MaxCount) |->
        IF i % 2 = 1
        THEN Wired(<<Ord[":"], 48 + i>> \o CRLF, FrameLen("Integer", i))
        ELSE Wired(<<Ord["$"], Ord["1"]>> \o CRLF \o <<96 + i>> \o CRLF,
                   FrameBytes("String", <<96 + i>>))]

\* The five aggregate markers and their kinds.
AggregateOf == [b \in {Ord["*"], Ord[">"], Ord["~"], Ord["%"], Ord["|"]} |->
                  CASE b = Ord["*"] -> "Array"
                    [] b = Ord[">"] -> "Push"
                    [] b = Ord["~"] -> "Set"
                    [] b = Ord["%"] -> "Map"
                    [] OTHER -> "Attribute"]

\* The children an aggregate of kind t and count n asks for.
Asked(t, n) == IF IsPairs(t) THEN 2 * n ELSE n

\* A header with count n, the children it asks for and one more value.
AggregateWire(b, n) ==
    <<b, 48 + n>> \o CRLF \o WireOf(Children, Asked(AggregateOf[b], n)) \o L(<<":", "9">>)

\* Every such aggregate, cut at every byte.
AggregateCalls ==
    UNION {{SubSeq(AggregateWire(b, n), 1, cut) : cut \in 1..Len(AggregateWire(b, n))} :
             b \in DOMAIN AggregateOf, n \in 0..MaxCount}

\* Values of every kind, as they are on the wire and as value() returns
\* them, to stand where a key of a map or a member of a set is read.
Keys ==
    { Wired(L(<<":", "1">>), FrameLen("Integer", 1)),
      Wired(L(<<"_">>), FrameNil),
      Wired(L(<<"$", "-", "1">>), FrameNil),
      Wired(L(<<"+", "a">>), FrameBytes("String", B(<<"a">>))),
      Wired(L(<<"$", "1">>) \o L(<<"b">>), FrameBytes("String", B(<<"b">>))),
      Wired(L(<<"#", "t">>), FrameLen("Boolean", 1)),
      Wired(L(<<",", "1", ".", "5">>), FrameLen("Double", 150)),
      Wired(L(<<"(", "1", "2">>), FrameBytes("Bignum", B(<<"1", "2">>))),
      Wired(L(<<"-", "e">>), FrameBytes("Error", B(<<"e">>))),
      Wired(L(<<"!", "1">>) \o L(<<"e">>), FrameBytes("Error", B(<<"e">>))),
      Wired(L(<<"=", "5">>) \o L(<<"t", "x", "t", ":", "a">>),
            Val("Verbatim", 0, B(<<"t", "x", "t">>), B(<<"a">>), <<>>)),
      Wired(L(<<"*", "0">>), Val("Array", 0, <<>>, <<>>, <<>>)),
      Wired(L(<<"*", "1">>) \o L(<<":", "1">>),
            Val("Array", 0, <<>>, <<>>, <<FrameLen("Integer", 1)>>)),
      Wired(L(<<">", "0">>), Val("Push", 0, <<>>, <<>>, <<>>)),
      Wired(L(<<"~", "0">>), Val("Set", 0, <<>>, <<>>, <<>>)),
      Wired(L(<<"%", "0">>), Val("Map", 0, <<>>, <<>>, <<>>)),
      Wired(L(<<"|", "0">>), Val("Attribute", 0, <<>>, <<>>, <<>>)) }

\* The value that follows a key.
Paired == Wired(L(<<":", "9">>), FrameLen("Integer", 9))

\* A map, an attribute or a set of one entry whose key is any of these
\* values, with and without the value after the key.
KeyCalls ==
    {<<b, Ord["1"]>> \o CRLF \o key.wire \o rest :
        b \in {Ord["%"], Ord["|"], Ord["~"]}, key \in Keys, rest \in {<<>>, Paired.wire}}

\* A reader over such a source, called with value() again and again.
InitValues ==
    \E inp \in AggregateCalls \cup KeyCalls :
        InitCall("value", inp, Config(BlobLimit, InlineLimit))

NextValues == StartCall \/ ReadChunk \/ ReadEof

Values == InitValues /\ [][NextValues]_vars

\* ------------------------------------------------ requests of both framings

\* The most requests in a stream.
MaxRequests == 2

\* Requests of both framings, each with the items it stands for: array
\* requests of one and of no argument, and valid inline lines that begin
\* with a letter, with a marker other than '*', with a quote, with a blank
\* and with nothing.
Framed ==
    << ArraySeg(<<B(<<"x">>)>>),
       ArraySeg(<<>>),
       Seg("inline", L(<<"a", " ", "b">>), <<Argument(B(<<"a">>)), Argument(B(<<"b">>)), End>>),
       Seg("inline", L(<<"$", "a">>), <<Argument(B(<<"$", "a">>)), End>>),
       Seg("inline", L(<<"'", "a", " ", "b", "'", " ", "*">>),
           <<Argument(B(<<"a", " ", "b">>)), Argument(B(<<"*">>)), End>>),
       Seg("inline", L(<<" ">>), <<End>>),
       Seg("inline", L(<<>>), <<End>>) >>

\* The streams: up to MaxRequests of these requests in every order.
FramedLists == UNION {[1..n -> DOMAIN Framed] : n \in 1..MaxRequests}

FramedWire(sl) == Concat([i \in 1..Len(sl) |-> Framed[sl[i]].wire])
FramedItems(sl) == Concat([i \in 1..Len(sl) |-> Framed[sl[i]].items])

\* A reader over such a stream, called with request() again and again, or
\* polled as requests().
InitFraming ==
    \E a \in {"request", "requests"}, sl \in FramedLists :
        InitCall(a, FramedWire(sl), Config(BlobLimit, InlineLimit))

NextFraming == StartCall \/ ReadChunk \/ ReadEof

Framing == InitFraming /\ [][NextFraming]_vars

\* ------------------------------------------------- request() calls that return

\* The source delivers what it has and then reports the end of input; the
\* caller calls request() again when it likes.
Returning == InitRequests /\ [][NextRequests]_vars /\ WF_vars(ReadChunk \/ ReadEof)

\* ------------------------------------------- the inline limit and requests

\* The inline limits the requests are read under, from the least to the
\* default.
InlineLimits == 1..LineLimit \cup {InlineLimit}

\* Array requests: the count line and the arguments are longer than the
\* small inline limits, all arguments are within the blob limit.
Arrays ==
    << ArraySeg(<<B(<<"x">>), B(<<"a", "b", "c", "d">>)>>),
       ArraySeg(<<>>),
       ArraySeg(<<B(<<"a", "b", "c", "d", "e">>)>>) >>

ArrayLists == UNION {[1..n -> DOMAIN Arrays] : n \in 1..MaxRequests}

ArraysWire(sl) == Concat([i \in 1..Len(sl) |-> Arrays[sl[i]].wire])
ArraysItems(sl) == Concat([i \in 1..Len(sl) |-> Arrays[sl[i]].items])

\* The longest inline line tried.
MaxInline == 4

\* An inline line of one token of n letters.
LineOf(n) == [i \in 1..n |-> Ord["a"]] \o CRLF

\* A reader under any of the inline limits, over array requests or over
\* one inline line.
InitInlineLimit ==
    \E a \in {"request", "requests"}, limit \in InlineLimits,
       inp \in {ArraysWire(sl) : sl \in ArrayLists} \cup {LineOf(n) : n \in 0..MaxInline} :
        InitCall(a, inp, Config(BlobLimit, limit))

NextInlineLimit == StartCall \/ ReadChunk \/ ReadEof

InlineLimited == InitInlineLimit /\ [][NextInlineLimit]_vars

\* ------------------------------------------------------ the byte primitives

\* The longest source peek() and pop() are called on.
MaxBytes == 2

\* The byte a primitive returns.
Byte(b) == FrameLen("Byte", b)

\* A variant of peek that takes the byte it returns out of the buffer.
peek_consumes(m) ==
    IF m.buffer = <<>>
    THEN IF m.eof THEN Finish(m, None) ELSE [m EXCEPT !.st = "wait"]
    ELSE Finish(Consume(m, 1), Some(Byte(Head(m.buffer))))

\* peek(): with an empty buffer read(), and None when it returns 0;
\* otherwise Some(buffer[0]).
peek(m) ==
    IF m.buffer = <<>>
    THEN IF m.eof THEN Finish(m, None) ELSE [m EXCEPT !.st = "wait"]
    ELSE Finish(m, Some(Byte(Head(m.buffer))))

\* pop(): with an empty buffer read_some(); then buffer.get_u8().
pop(m) ==
    IF m.buffer = <<>> THEN ReadSome(m)
    ELSE Finish(Consume(m, 1), Some(Byte(Head(m.buffer))))

\* The future a call of the primitive `fn` creates.
TaskByte(fn, pulled) ==
    [TaskIdle EXCEPT !.fn = fn, !.st = "run", !.pulled = pulled, !.start = pulled]

\* Poll the call of a primitive.
RunByte(m) ==
    IF m.st # "run" THEN m ELSE IF m.fn = "peek" THEN peek(m) ELSE pop(m)

\* The poll left the machine `m`: a call that has returned hands its
\* result to the caller.
PolledByte(m) ==
    /\ reader' = ReaderOf(m)
    /\ task' = TaskOf(m)
    /\ pos' = m.pulled
    /\ out' = IF m.st = "done" THEN Append(out, m.res) ELSE out

\* The caller calls peek() or pop().
CallByte(fn) ==
    /\ task.st \in {"idle", "done"}
    /\ Len(out) < MaxCalls
    /\ PolledByte(RunByte(Machine(reader, TaskByte(fn, pos))))
    /\ UNCHANGED <<api, input, config, closed, dropped, polling, cancels, dirty, midway,
                   split, expect, ref, version, written, sink, splitter, shared>>

CallPeek == CallByte("peek")

CallPop == CallByte("pop")

\* The read() the primitive is suspended in returns n > 0 bytes.
ByteChunk ==
    /\ task.st = "wait"
    /\ \E n \in 1..(Len(input) - pos) :
         PolledByte(RunByte(Pulled(Machine(reader, task), SubSeq(input, pos + 1, pos + n))))
    /\ UNCHANGED <<api, input, config, closed, dropped, polling, cancels, dirty, midway,
                   split, expect, ref, version, written, sink, splitter, shared>>

\* The read() the primitive is suspended in returns 0.
ByteEof ==
    /\ task.st = "wait"
    /\ pos = Len(input)
    /\ PolledByte(RunByte(PulledNothing(Machine(reader, task))))
    /\ UNCHANGED <<api, input, config, closed, dropped, polling, cancels, dirty, midway,
                   split, expect, ref, version, written, sink, splitter, shared>>

\* A reader over a short source, on which peek() and pop() are called in
\* any order.
InitBytes ==
    \E inp \in UNION {[1..n -> {Ord["a"], Ord["b"]}] : n \in 0..MaxBytes} :
        InitCall("frame", inp, Config(BlobLimit, InlineLimit))

NextBytes == CallPeek \/ CallPop \/ ByteChunk \/ ByteEof

Bytes == InitBytes /\ [][NextBytes]_vars

\* ------------------------------------------------------------- properties

IsPrefix(s, t) == Len(s) <= Len(t) /\ s = SubSeq(t, 1, Len(s))

Last(s) == s[Len(s)]

IsSome(r) == r.kind = "Some"

\* The items among the results: what the Ok(Some(_)) carried.
ItemsOf(o) == LET some == SelectSeq(o, IsSome) IN [i \in 1..Len(some) |-> some[i].v]

\* No call was abandoned in a way that matters to a request() caller.
Uninterrupted == api = "requests" \/ cancels = 0

ArrayOnly == expect.kinds # <<>> /\ \A i \in 1..Len(expect.kinds) : expect.kinds[i] = "array"

\* C1: over a stream of array-framed requests, request() / requests() give
\* each request's payloads as Argument items in wire order and then one
\* End, with request_state back at Init after each End; nothing else is
\* given (no error), and once the end of input is reported (requests()
\* closes, request() returns None) all the requests' items have been given.
ArrayRequestItems ==
    (api \in {"request", "requests"} /\ ArrayOnly /\ Uninterrupted) =>
        /\ \A i \in 1..Len(out) : out[i].kind \in {"Some", "None"}
        /\ IsPrefix(ItemsOf(out), expect.items)
        /\ (task.st = "done" /\ task.res = Some(End)) => reader.request_state = StInit
        /\ closed => ItemsOf(out) = expect.items
        /\ \A i \in 1..Len(out) :
               out[i].kind = "None" => ItemsOf(SubSeq(out, 1, i)) = expect.items

\* Two array-framed requests were given in full and the stream has closed.
ArrayRequestItemsWitness ==
    /\ api = "requests"
    /\ ArrayOnly
    /\ Len(expect.kinds) = 2
    /\ closed
    /\ Len(out) >= 4
    /\ ItemsOf(out) = expect.items

\* C2: in requests() an Error item is the last item: every item before the
\* last is a request item, so nothing is ever yielded after an Error.
ErrorIsLast ==
    api = "requests" => \A i \in 1..(Len(out) - 1) : out[i].kind = "Some"

\* requests() has yielded an Error and then ended, with bytes left in the
\* buffer and bytes left in the source.
ErrorIsLastWitness ==
    /\ api = "requests"
    /\ closed
    /\ out # <<>>
    /\ Last(out).kind = "Err"
    /\ reader.buffer # <<>>
    /\ pos < Len(input)

HasInvalid == \E i \in 1..Len(expect.kinds) : expect.kinds[i] = "invalid"

\* C3: over a stream of requests some of which are inline lines the
\* splitter rejects, each such line gives one InvalidArgument and nothing
\* else, the other requests give their items as usual, no error is given,
\* and after an InvalidArgument the reader is in Init with an empty
\* splitter queue and the stream is open.
InvalidArgumentItems ==
    (api \in {"request", "requests"} /\ HasInvalid /\ Uninterrupted) =>
        /\ \A i \in 1..Len(out) : out[i].kind \in {"Some", "None"}
        /\ IsPrefix(ItemsOf(out), expect.items)
        /\ (task.st = "done" /\ task.res = Some(InvalidArgument)) =>
               /\ reader.request_state = StInit
               /\ reader.arguments = <<>>
               /\ ~closed /\ ~dropped
        /\ closed => ItemsOf(out) = expect.items

\* An InvalidArgument was followed by the items of the next request, up to
\* its End, and then the stream closed.
InvalidArgumentItemsWitness ==
    /\ api = "requests"
    /\ closed
    /\ Len(out) >= 3
    /\ out[1] = Some(InvalidArgument)
    /\ out[2].v.t = "Argument"
    /\ Last(out) = Some(End)

\* C4: whatever next() futures were abandoned, and however the bytes
\* arrived, a stream yields the items of the uninterrupted run, in order,
\* and ends where that run ends.
StreamsCancelSafe ==
    IsStream =>
        /\ IsPrefix(out, ref.out)
        /\ closed => (out = ref.out /\ ref.closed)

\* A stream's next() was abandoned after its call had pulled and consumed
\* bytes, and the stream went on to yield everything and to end.
StreamsCancelSafeWitness ==
    /\ IsStream
    /\ dirty /\ midway
    /\ closed
    /\ Len(out) >= 2
    /\ out = ref.out

\* C5 as stated: whatever frame() / value() futures were abandoned, the
\* calls return what the calls of the uninterrupted run return.
CallsCancelSafe ==
    api \in {"frame", "value"} => IsPrefix(out, ref.out)

\* C5 as amended: the calls return what the calls of the uninterrupted run
\* return provided no future was abandoned after its call had consumed a
\* byte (it was abandoned in the peek() that opens the call).
CallsCancelSafeUnconsumed ==
    (api \in {"frame", "value"} /\ ~dirty) => IsPrefix(out, ref.out)

\* A value() future was abandoned before it consumed a byte, and the calls
\* after it returned everything the uninterrupted run returns.
CallsCancelSafeUnconsumedWitness ==
    /\ api = "value"
    /\ cancels > 0
    /\ ~dirty
    /\ out = ref.out
    /\ out[1].kind = "Some" /\ out[1].v.items # <<>>

\* C6 as stated: whatever request() futures were abandoned, the calls
\* return what the calls of the uninterrupted run return.
RequestResumable ==
    api = "request" => IsPrefix(out, ref.out)

\* C6 as amended: the calls return what the calls of the uninterrupted run
\* return provided no future was abandoned after its call had consumed a
\* byte that it had not yet accounted for in request_state.
RequestResumableStored ==
    (api = "request" /\ ~dirty) => IsPrefix(out, ref.out)

\* A request() future was abandoned after its call had pulled bytes (and
\* stored Args(n) for them), and the calls after it returned everything the
\* uninterrupted run returns.
RequestResumableStoredWitness ==
    /\ api = "request"
    /\ midway
    /\ ~dirty
    /\ out = ref.out
    /\ Len(ItemsOf(out)) >= 3

\* C7: with no future abandoned, frame() and request() calls return what
\* they return when all the bytes come in one read, however the source
\* cuts the bytes into reads.
ChunkingIndependent ==
    (api \in {"frame", "request"} /\ cancels = 0) => IsPrefix(out, ref.out)

\* The source cut the bytes into several reads and frame() returned all
\* the frames of the one-read run, blob and nil sentinels among them.
ChunkingIndependentWitness ==
    /\ api = "frame"
    /\ cancels = 0
    /\ split
    /\ out = ref.out
    /\ out[1].kind = "Some" /\ out[1].v.t = "BlobString"

IsBlobKind(t) == t \in {"BlobString", "BlobError"}

\* C8: a call that fails at the blob_limit check leaves the buffer as
\* read_size left it and has pulled nothing since read_size returned, and
\* no blob longer than blob_limit is ever returned.
BlobLimitBeforePayload ==
    /\ (task.st = "done" /\ task.site = "blob_limit") =>
           /\ task.res = Fail(E("InvalidBlobLength"))
           /\ Len(reader.buffer) = task.hdr_len
           /\ pos = task.hdr_pulled
    /\ (task.st = "done" /\ task.fn = "frame" /\ task.res.kind = "Some") =>
           /\ IsBlobKind(task.res.v.t) => Len(task.res.v.b) <= config.blob_limit
           /\ task.res.v.t = "Verbatim" =>
                  Len(task.res.v.a) + 1 + Len(task.res.v.b) <= config.blob_limit

\* A blob declared longer than blob_limit failed at the check while bytes
\* of its payload were in the buffer and more were still in the source.
BlobLimitBeforePayloadWitness ==
    /\ task.st = "done"
    /\ task.site = "blob_limit"
    /\ reader.buffer # <<>>
    /\ pos < Len(input)

RECURSIVE NoRepeat(_)
\* No map or attribute in `v` has two equal keys and no set two equal
\* members, at any depth.
NoRepeat(v) ==
    /\ \A i \in 1..Len(v.items) : NoRepeat(v.items[i])
    /\ IsPairs(v.t) =>
           \A i, j \in 1..Len(v.items) :
               (i % 2 = 1 /\ j % 2 = 1 /\ i # j) => v.items[i] # v.items[j]
    /\ v.t = "Set" =>
           \A i, j \in 1..Len(v.items) : i # j => v.items[i] # v.items[j]

\* C9: no value value() returns repeats a key or a member, and a first
\* value written with a repeated key (member) fails with InvalidMap
\* (InvalidSet).
NoRepeatedKeys ==
    api \in {"value", "values"} =>
        /\ \A i \in 1..Len(out) : out[i].kind = "Some" => NoRepeat(out[i].v)
        /\ (expect.dup # "" /\ out # <<>> /\ (IsStream \/ ~dirty)) =>
               out[1] = Fail(E(expect.dup))

\* value() failed with InvalidMap on a map that repeats a key with the
\* same value, the key spelled as a simple string and as a blob string.
NoRepeatedKeysWitness ==
    /\ api = "value"
    /\ expect.dup = "InvalidMap"
    /\ Contains(input, Ord["$"])
    /\ out # <<>>
    /\ out[1] = Fail(E("InvalidMap"))

Accepted == written.st = "done" /\ written.res = NoErr

\* The frame a write call stands for: the call's frame, and for
\* write_attribute(value) the header with the length of the value.
FrameWritten(f) == IF f.t = "Attribute" THEN FrameLen("Attribute", Len(f.b)) ELSE f

VersionRefused ==
    written.st = "done" =>
        (written.res = E("Version")
            <=> (version = "V2" /\ written.call.t \in {"Attribute", "BlobError"}))

Readable(v, f) ==
    CASE f.t \in {"SimpleString", "SimpleError", "Bignum"} ->
             ~Contains(f.b, CR) /\ Len(f.b) < config.inline_limit
      [] f.t \in {"BlobString", "BlobError"} -> Len(f.b) <= config.blob_limit
      [] f.t = "Verbatim" /\ v = "V3" ->
             Len(f.a) = 3 /\ Len(f.a) + 1 + Len(f.b) <= config.blob_limit
      [] f.t = "Verbatim" /\ v = "V2" -> Len(f.b) <= config.blob_limit
      [] f.t = "Map" /\ v = "V2" -> f.n # UsizeMax
      [] OTHER -> TRUE

\* The V2 stand-in of a frame that V2 cannot express.
Fallback(f) ==
    CASE f.t = "Boolean" -> FrameLen("Integer", f.n)
      [] f.t = "Bignum" -> FrameBytes("SimpleString", f.b)
      [] f.t = "Map" -> FrameLen("Array", 2 * f.n)
      [] f.t \in {"Push", "Set"} -> FrameLen("Array", f.n)
      [] f.t = "Verbatim" -> FrameBytes("BlobString", f.b)
      [] OTHER -> f

VersionGate ==
    (written.st = "done" /\ written.call.t \in {"Attribute", "BlobError"}) =>
        IF version = "V2" THEN written.res = E("Version") /\ sink = <<>>
        ELSE written.res = NoErr /\ sink # <<>>

\* write_blob_error was refused at V2 for a payload of several bytes.
VersionGateWitness ==
    /\ written.st = "done"
    /\ written.call.t = "BlobError"
    /\ Len(written.call.b) > 1
    /\ version = "V2"
    /\ written.res = E("Version")

\* C12: write_simple_string, write_simple_error and write_bignum, at either
\* version, given a payload with a newline byte (10) in it, return
\* Err(Newline) and nothing reaches the sink.
NewlineBeforeWrite ==
    (/\ written.st = "done"
     /\ written.call.t \in {"SimpleString", "SimpleError", "Bignum"}
     /\ \E i \in 1..Len(written.call.b) : written.call.b[i] = 10)
    => written.res = E("Newline") /\ sink = <<>>

\* write_bignum was refused at V3 for a payload with a newline in it.
NewlineBeforeWriteWitness ==
    /\ written.st = "done"
    /\ written.call.t = "Bignum"
    /\ \E i \in 1..Len(written.call.b) : written.call.b[i] = 10
    /\ version = "V3"
    /\ written.res = E("Newline")


\* The decimal text of a count, and of twice a count (twice usize::MAX is
\* 36893488147419103230).
Decimal(n) == FormatUsize(n)
DecimalOfTwice(n) ==
    IF n = UsizeMax THEN B(<<"3","6","8","9","3","4","8","8","1","4","7","4","1","9","1","0","3","2","3","0">>)
    ELSE FormatNat(2 * n)

\* The encoding table of C13, for the frames it lists.
EncodingV3(f) ==
    CASE f.t = "Boolean" -> IF f.n = 1 THEN L(<<"#", "t">>) ELSE L(<<"#", "f">>)
      [] f.t = "Nil" -> L(<<"_">>)
      [] f.t = "Map" -> <<Ord["%"]>> \o Decimal(f.n) \o CRLF
      [] f.t = "Push" -> <<Ord[">"]>> \o Decimal(f.n) \o CRLF
      [] f.t = "Set" -> <<Ord["~"]>> \o Decimal(f.n) \o CRLF
      [] f.t = "Bignum" -> <<Ord["("]>> \o f.b \o CRLF
      [] f.t = "Verbatim" ->
           <<Ord["="]>> \o Decimal(Len(f.a) + 1 + Len(f.b)) \o CRLF
           \o f.a \o <<Ord[":"]>> \o f.b \o CRLF

EncodingV2(f) ==
    CASE f.t = "Boolean" -> IF f.n = 1 THEN L(<<":", "1">>) ELSE L(<<":", "0">>)
      [] f.t = "Nil" -> L(<<"$", "-", "1">>)
      [] f.t = "Map" -> <<Ord["*"]>> \o DecimalOfTwice(f.n) \o CRLF
      [] f.t \in {"Push", "Set"} -> <<Ord["*"]>> \o Decimal(f.n) \o CRLF
      [] f.t = "Bignum" -> <<Ord["+"]>> \o f.b \o CRLF
      [] f.t = "Verbatim" -> <<Ord["$"]>> \o Decimal(Len(f.b)) \o CRLF \o f.b \o CRLF

Encoded ==
    /\ written.st = "done"
    /\ written.call.t \in {"Boolean", "Nil", "Map", "Push", "Set", "Bignum", "Verbatim"}
    /\ written.res # E("Newline")

\* C13 as stated: the writer emits Boolean, Nil, Map, Push, Set, Bignum
\* and Verbatim as the table says at V3 and at V2 (Map(n) at V2 as '*'
\* followed by exactly 2n), every line ending with CRLF.
VersionEncoding ==
    Encoded =>
        /\ written.res = NoErr
        /\ sink = IF version = "V3" THEN EncodingV3(written.call)
                  ELSE EncodingV2(written.call)


\* C14 as stated: write_array, write_map, write_set, write_push and
\* write_attribute, when they return Ok, write one line and nothing else:
\* the marker, the digits of the count, CRLF.
HeaderOnly ==
    (Accepted /\ written.call.t \in {"Array", "Map", "Set", "Push", "Attribute"}) =>
        /\ Len(sink) >= 4
        /\ sink[Len(sink) - 1] = 13 /\ sink[Len(sink)] = 10
        /\ \A i \in 2..(Len(sink) - 2) : sink[i] >= 48 /\ sink[i] <= 57


\* C15: a boolean written at V2 is read back as Integer(1) for true and
\* Integer(0) for false, never as a Boolean; and the reader returns a
\* Boolean only when the bytes it read begin with '#t' CRLF or '#f' CRLF.
BooleanAsInteger ==
    /\ (Accepted /\ version = "V2" /\ written.call.t = "Boolean" /\ out # <<>>) =>
           out[1] = Some(FrameLen("Integer", written.call.n))
    /\ (out # <<>> /\ out[1].kind = "Some" /\ out[1].v.t = "Boolean") =>
           /\ Len(input) >= 4
           /\ SubSeq(input, 1, 4) = (IF out[1].v.n = 1 THEN <<35, 116, 13, 10>>
                                     ELSE <<35, 102, 13, 10>>)

\* The boolean true went through a V2 writer and came back as Integer(1).
BooleanAsIntegerWitness ==
    /\ version = "V2"
    /\ Accepted
    /\ written.call = FrameLen("Boolean", 1)
    /\ sink = <<58, 49, 13, 10>>
    /\ out = <<Some(FrameLen("Integer", 1))>>


\* The tokens of the splitter: those next() has returned and those still
\* queued.
Yielded ==
    LET some == SelectSeq(splitter.taken, LAMBDA o : o.kind = "Some")
    IN  [i \in 1..Len(some) |-> some[i].v]

AllTokens == Yielded \o splitter.arguments

SplitDone == splitter.st \in {"split", "drained"}

\* ASCII whitespace: space, tab, line feed, form feed, carriage return.
Blank(b) == b = 32 \/ b = 9 \/ b = 10 \/ b = 12 \/ b = 13

\* The maximal runs of non-blank bytes of a line, from left to right.
FieldStarts(line) ==
    {i \in 1..Len(line) : ~Blank(line[i]) /\ (i = 1 \/ Blank(line[i - 1]))}

FieldEnd(line, i) ==
    CHOOSE j \in i..Len(line) :
        /\ \A k \in i..j : ~Blank(line[k])
        /\ (j = Len(line) \/ Blank(line[j + 1]))

NthStart(line, k) ==
    CHOOSE i \in FieldStarts(line) : Cardinality({h \in FieldStarts(line) : h < i}) = k - 1

Fields(line) ==
    [k \in 1..Cardinality(FieldStarts(line)) |->
        SubSeq(line, NthStart(line, k), FieldEnd(line, NthStart(line, k)))]

NoQuoteIn(line) == \A i \in 1..Len(line) : line[i] # 39 /\ line[i] # 34

\* C16: for a line that holds no quote character, split returns true and
\* the tokens it adds to the queue are exactly the maximal runs of
\* non-whitespace bytes, in order; for an empty or all-whitespace line it
\* returns true and adds none.
UnquotedFields ==
    (SplitDone /\ NoQuoteIn(splitter.line)) =>
        /\ splitter.ok
        /\ AllTokens = splitter.before \o Fields(splitter.line)
        /\ splitter.buffer = <<>>

\* "a \x " was split on a fresh splitter and next() returned "a", "\x" and
\* then None.
UnquotedFieldsWitness ==
    /\ splitter.st = "drained"
    /\ splitter.line = <<97, 32, 92, 120, 32>>
    /\ splitter.before = <<>>
    /\ splitter.taken = <<Some(<<97>>), Some(<<92, 120>>), None>>


\* The byte at i opens a quoted token: it is a quote, the first of the
\* line, at the start of the line or after a blank.
OpensQuote(line, i) ==
    /\ line[i] = 39 \/ line[i] = 34
    /\ i = 1 \/ Blank(line[i - 1])
    /\ \A j \in 1..(i - 1) : line[j] # 39 /\ line[j] # 34

\* The line ends inside quotes: the quote that opens never comes again.
EndsInsideQuotes(line) ==
    \E i \in 1..Len(line) :
        /\ OpensQuote(line, i)
        /\ \A j \in (i + 1)..Len(line) : line[j] # line[i]

\* The closing quote is followed by a byte that is not a blank.
ClosedBeforeNonBlank(line) ==
    \E i \in 1..Len(line) : \E k \in (i + 1)..(Len(line) - 1) :
        /\ OpensQuote(line, i)
        /\ line[k] = line[i]
        /\ \A j \in (i + 1)..(k - 1) : line[j] # line[i] /\ line[j] # 92
        /\ ~Blank(line[k + 1])

\* C17: split returns false when the line ends inside single or double
\* quotes and when a closing quote is followed by a byte that is not
\* whitespace; when it returns false the queue of tokens is empty (those of
\* this line and those queued before), the partial-token buffer is empty
\* and next() returns None.
RejectedLine ==
    SplitDone =>
        /\ (EndsInsideQuotes(splitter.line) \/ ClosedBeforeNonBlank(splitter.line)) =>
               ~splitter.ok
        /\ ~splitter.ok =>
               /\ splitter.arguments = <<>>
               /\ splitter.buffer = <<>>
               /\ splitter.st = "drained" => splitter.taken = <<None>>
               /\ splitter.st = "split" => splitter.taken = <<>>

\* 'a "x' was handed to a splitter that had two tokens queued: split
\* returned false and next() returned None.
RejectedLineWitness ==
    /\ splitter.st = "drained"
    /\ splitter.line = <<97, 32, 34, 120>>
    /\ splitter.before = <<<<120>>, <<98>>>>
    /\ ~splitter.ok
    /\ splitter.taken = <<None>>


\* The value of a hexadecimal digit, -1 for any other byte.
HexDigit(b) ==
    IF b >= 48 /\ b <= 57 THEN b - 48
    ELSE IF b >= 97 /\ b <= 102 THEN b - 87
    ELSE IF b >= 65 /\ b <= 70 THEN b - 55
    ELSE -1

\* The byte a backslash followed by c stands for inside double quotes.
Escaped(c) ==
    CASE c = 97 -> 7
      [] c = 98 -> 8
      [] c = 110 -> 10
      [] c = 114 -> 13
      [] c = 116 -> 9
      [] OTHER -> c

\* The line is a double-quoted token holding \x and two more bytes.
IsHexLine(line) ==
    /\ Len(line) = 6
    /\ line[1] = 34 /\ line[2] = 92 /\ line[3] = 120 /\ line[6] = 34
    /\ line[4] # 34 /\ line[4] # 92 /\ line[5] # 92

\* The line is a double-quoted token holding a backslash and one byte.
IsEscapeLine(line) ==
    /\ Len(line) = 4
    /\ line[1] = 34 /\ line[2] = 92 /\ line[3] # 34 /\ line[4] = 34

\* C18 as stated: inside double quotes, \x and two bytes give the byte
\* with that value when both are hexadecimal digits and otherwise the
\* three bytes x and the two, the line staying valid; \a, \b, \n, \r and
\* \t give BEL, BS, LF, CR and TAB, and a backslash before any other byte
\* gives that byte.
DoubleQuoteEscapes ==
    /\ (SplitDone /\ IsHexLine(splitter.line)) =>
           /\ splitter.ok
           /\ AllTokens = Append(splitter.before,
                  IF HexDigit(splitter.line[4]) >= 0 /\ HexDigit(splitter.line[5]) >= 0
                  THEN <<16 * HexDigit(splitter.line[4]) + HexDigit(splitter.line[5])>>
                  ELSE <<120, splitter.line[4], splitter.line[5]>>)
    /\ (SplitDone /\ IsEscapeLine(splitter.line)) =>
           /\ splitter.ok
           /\ AllTokens = Append(splitter.before, <<Escaped(splitter.line[3])>>)


\* How many backslashes the sequence ends with.
TrailingBackslashes(s) ==
    Cardinality({i \in 1..Len(s) : \A j \in i..Len(s) : s[j] = 92})

\* The line is one single-quoted token whose body holds no quote.
IsSingleQuoted(line) ==
    /\ Len(line) >= 2
    /\ line[1] = 39 /\ line[Len(line)] = 39
    /\ \A j \in 2..(Len(line) - 1) : line[j] # 39

QuotedBody(line) == SubSeq(line, 2, Len(line) - 1)

\* The line is one single-quoted token that holds one backslash-quote, at
\* k, with no backslash before it and none before the closing quote.
IsSingleQuotedEscape(line, k) ==
    /\ k >= 2 /\ k + 2 <= Len(line)
    /\ line[1] = 39 /\ line[Len(line)] = 39
    /\ line[k] = 92 /\ line[k + 1] = 39
    /\ \A j \in 2..(Len(line) - 1) : j # k + 1 => line[j] # 39
    /\ line[k - 1] # 92 /\ line[Len(line) - 1] # 92

\* The line is one token without quotes around it.
IsUnquoted(line) ==
    /\ line # <<>>
    /\ line[1] # 39 /\ line[1] # 34
    /\ \A j \in 1..Len(line) : ~Blank(line[j])

\* What C19 has in common with its amended form: backslash-quote inside
\* single quotes gives a quote, and a token without quotes around it is
\* copied as it is.
QuoteEscapeAndVerbatim ==
    /\ \A k \in 2..MaxLine :
         (SplitDone /\ IsSingleQuotedEscape(splitter.line, k)) =>
             /\ splitter.ok
             /\ AllTokens = Append(splitter.before,
                    SubSeq(splitter.line, 2, k - 1) \o <<39>>
                    \o SubSeq(splitter.line, k + 2, Len(splitter.line) - 1))
    /\ (SplitDone /\ IsUnquoted(splitter.line)) =>
           splitter.ok /\ AllTokens = Append(splitter.before, splitter.line)

\* C19 as stated: inside single quotes a backslash before a byte other
\* than a quote is copied together with that byte, so that a body without
\* quotes, whose backslashes pair up before the closing quote, is the
\* token; backslash-quote gives a quote; tokens without quotes are copied
\* as they are.
SingleQuotePairs ==
    /\ QuoteEscapeAndVerbatim
    /\ (SplitDone /\ IsSingleQuoted(splitter.line)
          /\ TrailingBackslashes(QuotedBody(splitter.line)) % 2 = 0) =>
           splitter.ok /\ AllTokens = Append(splitter.before, QuotedBody(splitter.line))

\* C19 as amended: inside single quotes a backslash that is not followed
\* by a quote is copied alone and the byte after it is read on its own; a
\* body without quotes that does not end with a backslash is the token,
\* and one that ends with a backslash escapes the closing quote, which
\* leaves the line inside quotes; backslash-quote gives a quote; tokens
\* without quotes are copied as they are.
SingleQuoteLiteral ==
    /\ QuoteEscapeAndVerbatim
    /\ (SplitDone /\ IsSingleQuoted(splitter.line)) =>
           IF TrailingBackslashes(QuotedBody(splitter.line)) = 0
           THEN splitter.ok /\ AllTokens = Append(splitter.before, QuotedBody(splitter.line))
           ELSE ~splitter.ok

\* '\x' was split on a fresh splitter: next() returned the two bytes
\* between the quotes and then None.
SingleQuoteLiteralWitness ==
    /\ splitter.st = "drained"
    /\ splitter.before = <<>>
    /\ splitter.line = <<39, 92, 120, 39>>
    /\ splitter.taken = <<Some(<<92, 120>>), None>>


\* The size field of the input: what follows the marker.
Field == SubSeqFrom(input, 2)

\* Its leading decimal digits, as bytes and as a numeral.
FieldDigits == SubSeq(Field, 1, DigitRun(Field))

FieldNumeral == StripZeros(DigitsOf(FieldDigits))

\* The bytes after the digits.
FieldRest == SubSeqFrom(Field, DigitRun(Field) + 1)

FieldFits == ~NumGreater(FieldNumeral, UsizeMaxDigits)

\* The first call has returned.
FirstCallDone == Len(out) = 1 /\ task.st = "done"

\* C20, the part that stands: digits that fit the machine word and are
\* followed by CRLF give their value; an empty field, a byte that is
\* neither a digit nor CR, and digits beyond the machine word fail with
\* InvalidBlobLength.
SizeOrInvalid ==
    FirstCallDone =>
        /\ (FieldDigits # <<>> /\ FieldFits /\ IsPrefix(<<13, 10>>, FieldRest)) =>
               /\ out[1] = Some(FrameLen("Push", ToNat(FieldNumeral)))
               /\ task.size = FieldNumeral
        /\ (FieldDigits = <<>> /\ Field # <<>>) => out[1] = Fail(E("InvalidBlobLength"))
        /\ (FieldDigits # <<>> /\ ~FieldFits) => out[1] = Fail(E("InvalidBlobLength"))
        /\ (FieldDigits # <<>> /\ FieldFits /\ FieldRest # <<>> /\ FieldRest[1] # 13) =>
               out[1] = Fail(E("InvalidBlobLength"))

\* Digits that fit, then CR, then a byte that is not LF.
DigitsThenBareCR ==
    /\ FieldDigits # <<>> /\ FieldFits
    /\ Len(FieldRest) >= 2 /\ FieldRest[1] = 13 /\ FieldRest[2] # 10

\* C20 as stated: digits that fit the machine word and are followed by
\* CRLF give their value, and every other content that comes before the
\* end of the input fails with InvalidBlobLength.
SizeElseInvalid ==
    /\ SizeOrInvalid
    /\ (FirstCallDone /\ DigitsThenBareCR) => out[1] = Fail(E("InvalidBlobLength"))

\* C20 as amended: as stated, but digits followed by CR and a byte other
\* than LF fail with Unexpected(LF, that byte).
SizeElseInvalidOrUnexpected ==
    /\ SizeOrInvalid
    /\ (FirstCallDone /\ DigitsThenBareCR) => out[1] = Fail(Err("Unexpected", 10, FieldRest[2]))

\* usize::MAX was read as a size, over more than one read.
SizeElseInvalidOrUnexpectedWitness ==
    /\ FirstCallDone
    /\ split
    /\ FieldNumeral = UsizeMaxDigits
    /\ out[1] = Some(FrameLen("Push", UsizeMax))


\* The text of the line: what follows the marker.
Text == SubSeqFrom(input, 2)

\* Where its first CR is, 0 when it has none.
TextCR ==
    IF \E i \in 1..Len(Text) : Text[i] = 13
    THEN CHOOSE i \in 1..Len(Text) : Text[i] = 13 /\ \A j \in 1..(i - 1) : Text[j] # 13
    ELSE 0

\* The first CR lies within the first inline_limit bytes.
CRWithinLimit == TextCR > 0 /\ TextCR <= config.inline_limit

\* What the reader has not consumed: its buffer and what the source still
\* holds.
Unconsumed == reader.buffer \o SubSeqFrom(input, pos + 1)

\* C21: read_line returns the bytes before the first CR and consumes the
\* CR and the LF after it when the CR lies within the first inline_limit
\* bytes; it fails with TooBigInline when no CR lies there and there are
\* more than inline_limit bytes, with Unexpected when the CR is followed by
\* a byte that is not LF, and with EndOfInput when the source ends before
\* a CR is found.
LineOrError ==
    FirstCallDone =>
        /\ (CRWithinLimit /\ Len(Text) > TextCR /\ Text[TextCR + 1] = 10) =>
               /\ out[1] = Some(FrameBytes("SimpleString", SubSeq(Text, 1, TextCR - 1)))
               /\ Unconsumed = SubSeqFrom(Text, TextCR + 2)
        /\ (~CRWithinLimit /\ Len(Text) > config.inline_limit) =>
               out[1] = Fail(E("TooBigInline"))
        /\ (CRWithinLimit /\ Len(Text) > TextCR /\ Text[TextCR + 1] # 10) =>
               out[1] = Fail(Err("Unexpected", 10, Text[TextCR + 1]))
        /\ (TextCR = 0 /\ Len(Text) <= config.inline_limit) =>
               out[1] = Fail(E("EndOfInput"))

\* "aa" CRLF and one more byte: the line came back over more than one
\* read and the byte after the line end was left.
LineOrErrorWitness ==
    /\ FirstCallDone
    /\ split
    /\ input = <<43, 97, 97, 13, 10, 97>>
    /\ out[1] = Some(FrameBytes("SimpleString", <<97, 97>>))
    /\ Unconsumed = <<97>>


\* C22 as stated: whatever is stored into the limits while a call is in
\* progress, every call ends with a frame or an item, with no item at the
\* end of the input, or with an error of RespError: never with a panic.
LimitStoresAreLegal ==
    \A i \in 1..Len(out) : out[i].kind \in {"Some", "None", "Err"}


\* C23: a RespConfig and its clones share the two limits: what any holder
\* loads is what was last stored into that limit through any holder, and
\* a store into one limit leaves the other as it was.
ClonesShareLimits ==
    /\ \A h \in 1..Len(shared.configs) :
         /\ blob_limit(shared, h) = shared.stored.blob_limit
         /\ inline_limit(shared, h) = shared.stored.inline_limit
    /\ shared.loaded # <<>> =>
         /\ shared.loaded[1].blob_limit = shared.stored.blob_limit
         /\ shared.loaded[1].inline_limit = shared.stored.inline_limit

\* With three holders, 1 was stored into blob_limit and nothing into
\* inline_limit, and the third holder has loaded both.
ClonesShareLimitsWitness ==
    /\ Len(shared.configs) = MaxHolders
    /\ shared.stored = Config(1, InlineLimit)
    /\ shared.loaded = <<[holder |-> 3, blob_limit |-> 1, inline_limit |-> InlineLimit]>>


\* The input is the beginning of a well-formed stream of requests.
CutStream == \E w \in {ArrayRequest \o InlineRequest, InlineRequest \o ArrayRequest} : IsPrefix(input, w)

\* It ends where a request ends.
EndsAtRequestEnd ==
    input \in {<<>>, ArrayRequest, InlineRequest,
               ArrayRequest \o InlineRequest, InlineRequest \o ArrayRequest}

\* The first call that returned something else than an item.
IsFirstEnd(i) ==
    /\ i \in 1..Len(out)
    /\ out[i].kind # "Some"
    /\ \A j \in 1..(i - 1) : out[j].kind = "Some"

\* C24: once request() has returned "no item" every later call returns "no
\* item" and the state is Done, which it is in no other case; and when the
\* input ends inside an array request or inside an inline line that has no
\* line end, the call that meets the end fails with EndOfInput, while
\* "no item" is what it returns when the input ends where a request ends.
DoneIsFinal ==
    api = "request" =>
        /\ \A i \in 1..Len(out) : \A j \in i..Len(out) :
               out[i].kind = "None" => out[j].kind = "None"
        /\ (reader.request_state = StDone) <=> (\E i \in 1..Len(out) : out[i].kind = "None")
        /\ CutStream =>
               /\ \A i \in 1..Len(out) : IsFirstEnd(i) =>
                      out[i] = (IF EndsAtRequestEnd THEN None ELSE Fail(E("EndOfInput")))
               /\ Len(out) = MaxCalls => \E i \in 1..Len(out) : IsFirstEnd(i)

\* Over one whole array request, request() returned the argument, End and
\* twice "no item".
DoneIsFinalWitness ==
    /\ api = "request"
    /\ input = ArrayRequest
    /\ reader.request_state = StDone
    /\ out = <<Some(Argument(<<120>>)), Some(End), None, None>>


\* C25 as stated: after a request() call has returned an error, no later
\* request() call on the same reader returns an Argument, an
\* InvalidArgument or an End.
ClosedAfterError ==
    api = "request" =>
        \A i \in 1..Len(out) : \A j \in (i + 1)..Len(out) :
            out[i].kind = "Err" => out[j].kind # "Some"

\* C25 as amended: it is requests() that closes after an error: the Error
\* item is the last thing it yields and the reader is dropped with it;
\* request() only returns the error and leaves request_state as it was,
\* never Done.
StreamClosedAfterError ==
    /\ api = "requests" =>
           \A i \in 1..Len(out) : out[i].kind = "Err" =>
               /\ i = Len(out)
               /\ dropped
               /\ task.st \in {"idle", "done"}
    /\ (api = "request" /\ out # <<>> /\ Last(out).kind = "Err" /\ task.st = "done") =>
           reader.request_state # StDone

\* requests() over a line with a bare CR followed by a whole request: it
\* yielded Error(Unexpected) and ended, the request unread.
StreamClosedAfterErrorWitness ==
    /\ api = "requests"
    /\ input = <<97, 13, 98, 13, 10>> \o InlineRequest
    /\ out = <<Fail(Err("Unexpected", 10, 98))>>
    /\ dropped /\ closed


\* The input is the beginning of the stream st, and holds n whole frames
\* of it.
HoldsFrames(st, n) ==
    /\ n \in 0..Len(st)
    /\ IsPrefix(WireOf(st, n), input)
    /\ IsPrefix(input, WireOf(st, Len(st)))
    /\ n < Len(st) => Len(input) < Len(WireOf(st, n + 1))

\* C26: over the beginning of a stream of well-formed frames, all within
\* the limits of the reader, that holds n whole frames, the first n calls of frame() return these frames, and the
\* call after them returns "no frame" when the input ends with the n-th
\* frame and fails with EndOfInput when it ends inside the next one: no
\* call returns a frame that is cut short.
NoFrameOrEndOfInput ==
    \A st \in FrameStreams : \A n \in 0..Len(st) :
        (input # <<>> /\ config.blob_limit = BlobLimit /\ HoldsFrames(st, n)) =>
            /\ \A i \in 1..Min(n, Len(out)) : out[i] = Some(st[i].frame)
            /\ Len(out) > n =>
                   out[n + 1] = (IF input = WireOf(st, n) THEN None ELSE Fail(E("EndOfInput")))
            /\ \A i \in 1..Len(out) : out[i] = None => Unconsumed = <<>>

\* The source ended inside the payload of the second frame: frame()
\* returned the first frame and then failed with EndOfInput.
NoFrameOrEndOfInputWitness ==
    /\ input = <<43, 97, 13, 10, 36, 50, 13, 10, 97>>
    /\ split
    /\ out = <<Some(FrameBytes("SimpleString", <<97>>)), Fail(E("EndOfInput"))>>

\* The fifteen type markers: * ( # $ , - : % _ > ~ + = ! |
IsMarker(b) == b \in {42, 40, 35, 36, 44, 45, 58, 37, 95, 62, 126, 43, 61, 33, 124}

\* C27: when the first byte is none of the fifteen type markers, frame()
\* fails with UnknownType carrying that byte and consumes nothing, so
\* that every further call fails in the same way.
UnknownTypeStays ==
    (input # <<>> /\ ~IsMarker(input[1])) =>
        /\ \A i \in 1..Len(out) : out[i] = Fail(Err("UnknownType", input[1], 0))
        /\ task.st \in {"idle", "done"} => Unconsumed = input

\* frame() has failed twice with UnknownType('x') and the buffer holds all
\* of the input.
UnknownTypeStaysWitness ==
    /\ input = <<120, 43, 97, 13, 10>>
    /\ out = <<Fail(Err("UnknownType", 120, 0)), Fail(Err("UnknownType", 120, 0))>>
    /\ reader.buffer = input


\* The input is "$-" or "*-" and more bytes.
IsNegative == Len(input) >= 2 /\ input[1] \in {36, 42} /\ input[2] = 45

\* The first position of the input, from the third on, whose byte is not
\* the one of <<'$' or '*', '-', '1', CR, LF>>; 0 when there is none.
FirstOther ==
    LET others == {i \in 3..Min(5, Len(input)) : input[i] # <<0, 0, 49, 13, 10>>[i]}
    IN  IF others = {} THEN 0 ELSE CHOOSE i \in others : \A j \in others : i <= j

\* No result is a BlobString or an Array frame.
NoBlobNoArray ==
    \A i \in 1..Len(out) :
        out[i].kind = "Some" => out[i].v.t \notin {"BlobString", "Array"}

\* C28, as it is stated: "$-1" CRLF and "*-1" CRLF are decoded to Nil and
\* nothing after them is consumed; every other sequence after "$-" or "*-"
\* fails with Unexpected; no BlobString or Array comes from a negative
\* length.
NilOrUnexpected ==
    (IsNegative /\ FirstCallDone) =>
        /\ NoBlobNoArray
        /\ IF SubSeq(input, 3, Min(5, Len(input))) = <<49, 13, 10>>
           THEN out[1] = Some(FrameNil) /\ Unconsumed = SubSeqFrom(input, 6)
           ELSE out[1].kind = "Err" /\ out[1].e.e = "Unexpected"

\* C28, amended: "$-1" CRLF and "*-1" CRLF are decoded to Nil and nothing
\* after them is consumed; a sequence with another byte fails with
\* Unexpected at the first such byte, and a source that ends inside the
\* sentinel fails with EndOfInput; no BlobString or Array comes from a
\* negative length.
NilOrUnexpectedOrEndOfInput ==
    (IsNegative /\ FirstCallDone) =>
        /\ NoBlobNoArray
        /\ IF FirstOther # 0
           THEN out[1] = Fail(Err("Unexpected", <<0, 0, 49, 13, 10>>[FirstOther],
                                   input[FirstOther]))
           ELSE IF Len(input) >= 5
           THEN out[1] = Some(FrameNil) /\ Unconsumed = SubSeqFrom(input, 6)
           ELSE out[1] = Fail(E("EndOfInput"))

\* "*-1" CRLF was decoded to Nil and the byte after it is not consumed.
NilOrUnexpectedOrEndOfInputWitness ==
    /\ input = <<42, 45, 49, 13, 10, 50>>
    /\ FirstCallDone
    /\ out = <<Some(FrameNil)>>
    /\ Unconsumed = <<50>>


\* The input is '=', one digit, CRLF and more bytes.
IsVerbatim ==
    /\ Len(input) >= 4
    /\ input[1] = 61 /\ input[2] \in 48..57 /\ input[3] = 13 /\ input[4] = 10

\* The length the input declares, and the bytes after the length.
Declared == input[2] - 48
Payload == SubSeqFrom(input, 5)

\* C29: a verbatim frame whose declared length is above blob_limit fails
\* with InvalidBlobLength; else one whose declared length is below 4 fails
\* with InvalidVerbatim, and in both cases no byte after the length is
\* consumed; else the payload is read, and a byte other than ':' at
\* offset 3 fails with InvalidVerbatim; else the frame has bytes 0..3 of
\* the payload as its format and bytes 4.. as its text.
VerbatimOrder ==
    (IsVerbatim /\ FirstCallDone) =>
        IF Declared > config.blob_limit
        THEN out[1] = Fail(E("InvalidBlobLength")) /\ Unconsumed = Payload
        ELSE IF Declared < 4
        THEN out[1] = Fail(E("InvalidVerbatim")) /\ Unconsumed = Payload
        ELSE IF Len(Payload) < Declared
        THEN out[1] = Fail(E("EndOfInput"))
        ELSE IF Payload[4] # 58
        THEN /\ out[1] = Fail(E("InvalidVerbatim"))
             /\ Unconsumed = SubSeqFrom(Payload, Declared + 1)
        ELSE IF Len(Payload) < Declared + 2
        THEN out[1] = Fail(E("EndOfInput"))
        ELSE out[1] = Some(Val("Verbatim", 0, SubSeq(Payload, 1, 3),
                               SubSeq(Payload, 5, Declared), <<>>))

\* Under a blob_limit of 2, "=3" CRLF "aaa" CRLF failed with
\* InvalidBlobLength, not with InvalidVerbatim, and the payload is not
\* consumed.
VerbatimOrderWitness ==
    /\ input = <<61, 51, 13, 10, 97, 97, 97, 13, 10>>
    /\ config.blob_limit = 2
    /\ FirstCallDone
    /\ out = <<Fail(E("InvalidBlobLength"))>>
    /\ Unconsumed = <<97, 97, 97, 13, 10>>


\* The input is the beginning of an aggregate with marker b and count n
\* that asks for k children, and holds all of them.
HoldsChildren(b, n, k) ==
    /\ Len(input) >= 4 + Len(WireOf(Children, k))
    /\ IsPrefix(input, AggregateWire(b, n))

\* The input is the beginning of such an aggregate and ends before the
\* last of its children does.
LacksChildren(b, n, k) ==
    /\ input # <<>>
    /\ Len(input) < 4 + Len(WireOf(Children, k))
    /\ IsPrefix(input, AggregateWire(b, n))

\* The aggregate of kind t with the first k children.
Aggregate(t, k) == Val(t, 0, <<>>, <<>>, [i \in 1..k |-> Children[i].frame])

\* C30: value() on the header of an Array, Push or Set with count n
\* returns the aggregate of the n values that follow, on the header of a
\* Map or Attribute that of the 2n values that follow, in the order of the
\* wire, and consumes no byte after them; when the source ends before the
\* last of them it fails with EndOfInput.
ExactChildren ==
    \A b \in DOMAIN AggregateOf : \A n \in 0..MaxCount :
        FirstCallDone =>
            /\ HoldsChildren(b, n, Asked(AggregateOf[b], n)) =>
                   /\ out[1] = Some(Aggregate(AggregateOf[b], Asked(AggregateOf[b], n)))
                   /\ Unconsumed =
                          SubSeqFrom(input, 5 + Len(WireOf(Children, Asked(AggregateOf[b], n))))
            /\ LacksChildren(b, n, Asked(AggregateOf[b], n)) =>
                   out[1] = Fail(E("EndOfInput"))

\* The source ended after the first of the two members of a set.
CutSet ==
    /\ FirstCallDone
    /\ input = <<126, 50, 13, 10, 58, 49, 13, 10>>
    /\ out = <<Fail(E("EndOfInput"))>>

\* value() returned a map of two entries from "%2" and four values, and
\* left the value after them.
ExactChildrenWitness ==
    /\ FirstCallDone
    /\ input = AggregateWire(37, 2)
    /\ out[1] = Some(Aggregate("Map", 4))
    /\ Unconsumed = <<58, 57, 13, 10>>


\* The input is a map, an attribute or a set with marker b and one entry,
\* whose key is `key`, followed by `rest`.
HasKey(b, key, rest) == input = <<b, 49, 13, 10>> \o key.wire \o rest

\* What value() makes of one entry with a primitive key: a map and an
\* attribute need the paired value, a set is complete with its member.
OneEntry(b, key, rest) ==
    IF b = 126 THEN Some(Val("Set", 0, <<>>, <<>>, <<key.frame>>))
    ELSE IF rest = <<>> THEN Fail(E("EndOfInput"))
    ELSE Some(Val(AggregateOf[b], 0, <<>>, <<>>, <<key.frame, Paired.frame>>))

\* C31: only Integer, Nil and String values are primitives: a key of a map
\* or an attribute, or a member of a set, of any other kind makes value()
\* fail with RespPrimitive, and no byte after the key is consumed, so that
\* the paired value is not read; a primitive key is accepted.
OnlyPrimitiveKeys ==
    \A b \in {37, 124, 126} : \A key \in Keys : \A rest \in {<<>>, Paired.wire} :
        (FirstCallDone /\ HasKey(b, key, rest)) =>
            IF key.frame.t \in {"Integer", "Nil", "String"}
            THEN out[1] = OneEntry(b, key, rest)
            ELSE out[1] = Fail(E("RespPrimitive")) /\ Unconsumed = rest

\* value() failed with RespPrimitive on a map whose key is a Boolean, and
\* the value after the key is not consumed.
OnlyPrimitiveKeysWitness ==
    /\ FirstCallDone
    /\ input = <<37, 49, 13, 10, 35, 116, 13, 10, 58, 57, 13, 10>>
    /\ out = <<Fail(E("RespPrimitive"))>>
    /\ Unconsumed = <<58, 57, 13, 10>>


\* The End items among the results.
Ends == Cardinality({i \in 1..Len(out) : out[i] = Some(End)})

\* The kind of the request the tokenizer is in, in the stream sl: the one
\* after as many requests as there were End items.
KindNow(sl) == IF Ends < Len(sl) THEN Framed[sl[Ends + 1]].kind ELSE "none"

\* C32: over a stream of array requests and valid inline lines in any
\* order, the tokenizer is in Args only inside a request that began with
\* '*' and in Splitting only inside one that began with another byte; the
\* items are those of the requests in order, each request ended by its own
\* End, with no error; and after the last End there is no further item.
FramingPerRequest ==
    \A sl \in FramedLists :
        input = FramedWire(sl) =>
            /\ reader.request_state.s = "Args" => KindNow(sl) = "array"
            /\ reader.request_state.s = "Splitting" => KindNow(sl) = "inline"
            /\ \A i \in 1..Len(out) : out[i].kind \in {"Some", "None"}
            /\ IsPrefix(ItemsOf(out), FramedItems(sl))
            /\ \A i \in 1..Len(out) :
                   out[i].kind = "None" => ItemsOf(SubSeq(out, 1, i)) = FramedItems(sl)
            /\ closed => ItemsOf(out) = FramedItems(sl)

\* An inline line that begins with '$' and an array request after it were
\* both given, each with its End.
FramingPerRequestWitness ==
    /\ input = <<36, 97, 13, 10, 42, 49, 13, 10, 36, 49, 13, 10, 120, 13, 10>>
    /\ ItemsOf(out) = <<Argument(<<36, 97>>), End, Argument(<<120>>), End>>


\* The stream sl holds inline lines only.
InlineOnly(sl) == \A i \in 1..Len(sl) : Framed[sl[i]].kind = "inline"

\* The items still to come, after those that were given.
ToCome(sl) == SubSeqFrom(FramedItems(sl), Len(ItemsOf(out)) + 1)

\* The tokens in the splitter's queue, as the items they will be given as.
Queued == [i \in 1..Len(reader.arguments) |-> Argument(reader.arguments[i])]

\* C33: over valid inline lines, the i-th call gives the i-th item: the
\* tokens of a line from left to right as Arguments, one a call, and then
\* one End, after which the tokenizer is in Init with an empty queue; a
\* line of no token gives End alone.  In Splitting the queue holds the
\* tokens of the line that were not given yet.
InlineTokens ==
    \A sl \in FramedLists :
        (input = FramedWire(sl) /\ InlineOnly(sl)) =>
            /\ \A i \in 1..Min(Len(out), Len(FramedItems(sl))) :
                   out[i] = Some(FramedItems(sl)[i])
            /\ (task.st = "done" /\ task.res = Some(End)) =>
                   reader.request_state = StInit /\ reader.arguments = <<>>
            /\ (task.st \in {"idle", "done"} /\ reader.request_state.s = "Splitting") =>
                   IsPrefix(Append(Queued, End), ToCome(sl))

\* The line "'a b' *" gave its first token, the second is in the queue;
\* before it a blank line gave End alone.
InlineTokensWitness ==
    /\ input = <<32, 13, 10, 39, 97, 32, 98, 39, 32, 42, 13, 10>>
    /\ out = <<Some(End), Some(Argument(<<97, 32, 98>>))>>
    /\ reader.request_state = StSplitting
    /\ reader.arguments = <<(<<42>>)>>


\* Over array requests the items are those of the requests, without an
\* error, whatever the inline limit is.
ArraysUnlimited ==
    \A sl \in ArrayLists :
        input = ArraysWire(sl) =>
            /\ \A i \in 1..Min(Len(out), Len(ArraysItems(sl))) :
                   out[i] = Some(ArraysItems(sl)[i])
            /\ Len(out) > Len(ArraysItems(sl)) =>
                   /\ out[Len(ArraysItems(sl)) + 1] = None
                   /\ Len(out) = Len(ArraysItems(sl)) + 1 \/ api = "request"

\* What the first call gives over an inline line of n letters: an error
\* when the CR is not within the first inline_limit bytes.
FirstOfLine(n) ==
    IF n >= config.inline_limit THEN Fail(E("TooBigInline"))
    ELSE IF n = 0 THEN Some(End)
    ELSE Some(Argument([i \in 1..n |-> 97]))

\* C34: the items of a stream of array requests do not depend on
\* inline_limit: they are the same under every inline limit, however long
\* the count line and the arguments are; an inline line is rejected with
\* TooBigInline when it is longer than inline_limit allows, and read
\* otherwise.
InlineLimitOnlyOnLines ==
    /\ ArraysUnlimited
    /\ \A n \in 0..MaxInline :
           (input = LineOf(n) /\ out # <<>>) => out[1] = FirstOfLine(n)

\* Under an inline limit of 1, an array request with an argument of four
\* bytes was given in full.
InlineLimitOnlyOnLinesWitness ==
    /\ config.inline_limit = 1
    /\ input = ArraysWire(<<1>>)
    /\ out = <<Some(Argument(<<120>>)), Some(Argument(<<97, 98, 99, 100>>)), Some(End), None>>

\* Under an inline limit of 2, a line of three letters was rejected.
RejectedLongLine ==
    /\ config.inline_limit = 2
    /\ input = LineOf(3)
    /\ out # <<>> /\ out[1] = Fail(E("TooBigInline"))


\* The number of bytes that were consumed.
Taken == Len(input) - Len(Unconsumed)

\* A call has just returned.
Returned(fn) == task.st = "done" /\ task.fn = fn

\* peek() and pop() never lose a byte: what is consumed is a beginning of
\* the input, and a primitive that returns a byte returns the one that was
\* first in what was not consumed; at the end of the input peek() returns
\* None and pop() fails with EndOfInput, and only there.
ByteReturned ==
    /\ Unconsumed = SubSeqFrom(input, Taken + 1)
    /\ Returned("peek") =>
           task.res = (IF Unconsumed = <<>> THEN None ELSE Some(Byte(Head(Unconsumed))))
    /\ Returned("pop") =>
           \/ task.res = Fail(E("EndOfInput")) /\ Unconsumed = <<>> /\ pos = Len(input)
           \/ Taken > 0 /\ task.res = Some(Byte(input[Taken]))

\* After peek() has returned a byte, the next call, peek() or pop(),
\* returns the same byte at once, and peek() changes nothing in the reader.
PeekThenSame ==
    (Returned("peek") /\ task.res.kind = "Some") =>
        /\ task'.st = "done" /\ task'.res = task.res
        /\ task'.fn = "peek" => reader' = reader /\ pos' = pos
        /\ task'.fn = "pop" => reader'.buffer = Tail(reader.buffer)

\* C35: peek() never consumes: the call after a peek() that returned a
\* byte returns that byte, be it pop() or peek(), and peek() leaves the
\* reader as it is; with the buffer empty and the source at its end peek()
\* returns None, not an error, and pop() fails with EndOfInput.
PeekNeverConsumes == []ByteReturned /\ [][PeekThenSame]_vars

\* Over "ab": a byte was returned twice, so peeked and then peeked or
\* popped; the next byte was returned and popped; then peek() returned None
\* and pop() failed with EndOfInput.
PeekNeverConsumesWitness ==
    /\ input = <<97, 98>>
    /\ out = <<Some(Byte(97)), Some(Byte(97)), Some(Byte(98)), None, Fail(E("EndOfInput"))>>
    /\ Returned("pop")


\* The bytes pulled from the source so far.
PulledBytes == SubSeq(input, 1, pos)

\* The bytes consumed so far: get_u8, advance and split_to take them from
\* the front of the buffer.
ConsumedBytes == SubSeq(input, 1, reader.consumed)

\* The bytes consumed followed by the bytes in the buffer are the bytes
\* pulled, in order.
Conserved ==
    /\ reader.consumed + Len(reader.buffer) = pos
    /\ ConsumedBytes \o reader.buffer = PulledBytes

\* A step appends the bytes it pulls to the buffer and takes the bytes it
\* consumes from the front, and does nothing else to the buffer.
FrontToBack ==
    /\ pos' >= pos
    /\ reader'.consumed >= reader.consumed
    /\ reader'.buffer = SubSeqFrom(reader.buffer \o SubSeq(input, pos + 1, pos'),
                                   reader'.consumed - reader.consumed + 1)

\* C36: in every state of a reader the bytes consumed so far followed by
\* the bytes in the buffer are the bytes pulled from the source so far, in
\* order; every step, of a call that returns a value, fails, meets the end
\* of the input or is abandoned, appends what it pulls to the buffer and
\* takes what it consumes from the front, so that no pulled byte is
\* repeated, moved or dropped unconsumed.
ByteConservation == []Conserved /\ [][FrontToBack]_vars

\* A call met the end of the input inside a payload: it failed with
\* EndOfInput after it consumed the length, and the part of the payload
\* that was pulled is in the buffer.
ByteConservationWitness ==
    /\ task.st = "done"
    /\ task.res = Fail(E("EndOfInput"))
    /\ pos = Len(input)
    /\ reader.buffer # <<>>
    /\ Len(reader.buffer) < pos


\* C37: whenever request_state is Init, Args(n) or Done the queue of the
\* splitter is empty: the tokens of a line are all given, or all dropped
\* when the line is rejected, before another line is split, also when
\* calls are abandoned, so that no request gets a token of an earlier line.
QueueEmptyOutsideSplitting ==
    reader.request_state.s \in {"Init", "Args", "Done"} => reader.arguments = <<>>

\* The line "a 'b", whose first token was queued before the open quote was
\* found, was rejected, and the line "a  b" after it gave its own two
\* tokens and End: the tokenizer is in Init with an empty queue.
QueueEmptyOutsideSplittingWitness ==
    /\ api = "request"
    /\ expect.kinds = <<"invalid", "inline">>
    /\ ItemsOf(out) = <<InvalidArgument, Argument(<<97>>), Argument(<<98>>), End>>
    /\ reader.request_state = StInit
    /\ reader.arguments = <<>>


\* ---------------------------------------------------------------------------
\* C38: the free function split and Splitter::split accept or reject every
\* line alike and, when they accept, produce the same arguments.
BothSplit == splitter.st = "split" /\ out # <<>>

SplittersAgree ==
    BothSplit =>
        /\ out[1].ok = splitter.ok
        /\ splitter.ok => out[1].arguments = splitter.arguments

\* On a line without a backslash the two agree.
SplittersAgreeWithoutEscapes ==
    (\A i \in 1..Len(splitter.line) : splitter.line[i] # Backslash) => SplittersAgree

\* The two return the same verdict on every line.
SplittersAcceptAlike == BothSplit => out[1].ok = splitter.ok

\* The free function never indexes out of range.
SplitFreeInRange == out # <<>> => out[1].ok \in BOOLEAN

\* The line '\'' ab: both splitters ran on it.
SplittersDiffer ==
    /\ BothSplit
    /\ splitter.line = <<Quote, Backslash, Quote, Quote, 32, Ord["a"], Ord["x"]>>
    /\ splitter.arguments = <<<<Quote>>, <<Ord["a"], Ord["x"]>>>>
    /\ out[1].arguments = <<<<Quote>>, <<32, Ord["a"]>>>>


\* ---------------------------------------------------------------------------
\* C39: over a finite input followed by end of input, frames() and values()
\* yield finitely many items and then end, also when an item is an error.
StreamsEnd == <>closed

\* Some item the caller holds is an error.
SomeError == \E i \in 1..Len(out) : out[i].kind = "Err"

\* A stream that yields no error ends.
StreamsEndOrFail == <>(closed \/ SomeError)

\* The single byte x: the stream has yielded UnknownType MaxCalls times, no
\* byte was consumed and the stream is not over.
UnknownTypeAgain ==
    /\ input = <<Ord["x"]>>
    /\ Len(out) = MaxCalls
    /\ \A i \in 1..MaxCalls : out[i] = Fail(Err("UnknownType", Ord["x"], 0))
    /\ reader.consumed = 0
    /\ pos = 1
    /\ ~closed


\* ---------------------------------------------------------------------------
\* C40: every request() call returns once the source has delivered bytes or
\* reported the end of input; the loop comes round at most twice in a call
\* (once from Init to Args or to Splitting), Args(n) goes down by one with
\* each Argument, and no call goes round without returning or consuming.
InRequest == task.fn = "request" /\ task.st = "wait"

\* The call in flight, or the last one, entered the loop once or twice.
OneReentry == task.fn = "request" => task.turns \in 1..2

\* A call that started or waited in Args(n) and returns an Argument leaves
\* Args(n - 1).
ArgsCountDown ==
    (/\ reader.request_state.s = "Args"
     /\ task'.st = "done"
     /\ Len(out') = Len(out) + 1
     /\ out'[Len(out')].kind = "Some"
     /\ out'[Len(out')].v.t = "Argument")
        => /\ reader.request_state.n > 0
           /\ reader'.request_state = Args(reader.request_state.n - 1)

RequestReturns ==
    /\ []OneReentry
    /\ [][ArgsCountDown]_vars
    /\ InRequest ~> (task.st = "done")

\* A call that had to wait for the bytes of an array header and of its one
\* argument went round twice and returned the argument.
RequestReturnsWitness ==
    /\ input = ArrayWire(<<B(<<"x">>)>>)
    /\ task.st = "done"
    /\ task.turns = 2
    /\ task.pulled > task.start
    /\ out = <<Some(Argument(B(<<"x">>)))>>
    /\ reader.request_state = Args(0)

====
